---- MODULE Spec2Model ----
(***************************************************************************)
(* A model of openmprdb-client-cli's certificate trust store               *)
(* (pgp.rs, CertificationManager) and of the signed-envelope verification  *)
(* built on it (pgp.rs, verify / VerifyHelper).                            *)
(*                                                                         *)
(* The OpenPGP engine (sequoia_openpgp) is not part of the repository; its *)
(* behaviour is modelled at the calls the repository makes into it.        *)
(***************************************************************************)
EXTENDS Integers, Sequences, FiniteSets, TLC

(***************************************************************************)
(* Bounds of the model.                                                    *)
(***************************************************************************)
MaxTime == 1        \* the clock runs over 0..MaxTime
NCerts == 2         \* certificate fingerprints 1..NCerts
MaxFile == 2        \* certificates in the keyring file found at start

Times == 0..MaxTime
CertFps == 1..NCerts
\* Every certificate owns two keys: key 2f-1 and key 2f belong to fingerprint f.
Keys == 1..(2 * NCerts)
OwnerOf(k) == (k + 1) \div 2

\* no certificate (Option::None where a certificate is expected)
NoCert == [fp |-> 0, keys |-> {}]

(***************************************************************************)
(* Key metadata as the engine reports it (Key::keyid, creation time,       *)
(* expiration, key flags, revocation status).  A key-id is the low 64 bits *)
(* of the key's fingerprint, so two different keys may share one: key 3    *)
(* (of certificate 2) has the key-id of key 1 (of certificate 1).          *)
(***************************************************************************)
KeyIdOf(k) == IF k = 3 THEN 1 ELSE k
KeyCreated(k) == IF k = 2 THEN 1 ELSE 0
\* the first time at which the key is no longer alive (beyond the clock: never)
KeyExpires(k) == IF k = 5 THEN 1 ELSE MaxTime + 1
KeySigning(k) == k # 4
KeyRevoked(k) == k = 6

KeyIds == {KeyIdOf(k) : k \in Keys}

\* A certificate as parsed from bytes: its fingerprint and the keys this copy
\* of it carries (copies of one certificate may carry different subkeys).
KeysOwnedBy(f) == {k \in Keys : OwnerOf(k) = f}
Certs == UNION {{[fp |-> f, keys |-> ks] : ks \in (SUBSET KeysOwnedBy(f)) \ {{}}} : f \in CertFps}

\* .alive() of the key amalgamation at time t
Alive(k, t) == KeyCreated(k) <= t /\ t < KeyExpires(k)

\* cert.keys().with_policy(p, t).alive().revoked(false).for_signing().supported()
SigningKeys(cert, t) == {k \in cert.keys : Alive(k, t) /\ ~KeyRevoked(k) /\ KeySigning(k)}

SigningKeyIds(cert, t) == {KeyIdOf(k) : k \in SigningKeys(cert, t)}

VARIABLES
    now,        \* SystemTime::now()
    fstate,     \* the keyring path: "missing", "ok", "denied" (open fails), "corrupt"
    file,       \* the certificates serialized in the keyring file, in file order
    opened,     \* a CertificationManager exists
    certs,      \* CertificationManager.certs : HashSet<CertWrap>
    indexs,     \* CertificationManager.indexs : HashMap<KeyID, Weak<Cert>>
    changed,    \* CertificationManager.changed
    timestamp,  \* CertificationManager.timestamp
    last,       \* the last store operation, its argument and what it returned;
                \* hit: an add or remove has returned true since the store was
                \* opened; saved: save() was called since the store was opened
    vres,       \* the last call of verify: the envelope and what came of it
    cache,      \* SigningKeyPairGenerator.cache : Option<(KeyID, KeyPair)>
    rlog,       \* what the PasswordProvider and the callers of generate have seen
    codec,      \* a record on its way through write_to and read_from
    signer,     \* a call of build_signer, the keys handed to it and what reached w
    cfile,      \* the configuration file
    cfg,        \* the FileConfig<ClientData> of the running command
    clog,       \* what the runs over the configuration file have seen
    rfile,      \* the record file
    records,    \* the RecordConfig of the running command
    run,        \* the last command over the records: what it asked of the server
    sfiles,     \* the servers file and the keyring file next to it
    servers,    \* the ServersConfig of the running command
    slog,       \* what the callers of ServersConfig have seen
    shown       \* what the last command that fetched a record has printed

\* the variables outside the trust store and the key resolver
\* the variables of the server registry
kvars == <<sfiles, servers, slog, shown>>

avars == <<codec, signer, cfile, cfg, clog, rfile, records, run, kvars>>

vars == <<now, fstate, file, opened, certs, indexs, changed, timestamp, last, vres, cache, rlog, avars>>

\* the variables of the SigningKeyPairGenerator
rvars == <<cache, rlog>>

(***************************************************************************)
(* HashSet<CertWrap>: CertWrap's Eq and Hash look at the fingerprint only. *)
(***************************************************************************)
\* equality as it would be if CertWrap compared the whole certificate
CertWrapEqWhole(a, b) == a = b

CertWrapEq(a, b) == a.fp = b.fp

HashSetContains(cs, c) == \E d \in cs : CertWrapEq(d, c)

\* insert as it would be if it replaced the element already there
HashSetInsertReplacing(cs, c) == {d \in cs : d.fp # c.fp} \cup {c}

\* HashSet::insert keeps the element already there and returns false
HashSetInsert(cs, c) == IF HashSetContains(cs, c) THEN cs ELSE cs \cup {c}

HashSetRemove(cs, c) == {d \in cs : ~CertWrapEq(d, c)}

(***************************************************************************)
(* HashMap<KeyID, Weak<Cert>>.  The only strong reference to a stored      *)
(* certificate is the one the HashSet holds, and the HashSet holds at most *)
(* one object per fingerprint, so a live Weak is named by the fingerprint  *)
(* of its object; a Weak whose object was dropped is Dangling.  The Rc a   *)
(* caller passes to remove is released when its command ends, so a Weak    *)
(* left behind for a removed certificate is Dangling from then on.         *)
(***************************************************************************)
Dangling == 0

EmptyIndex == [k \in {} |-> Dangling]

\* the index loop as it would be if it kept an entry that is already there
IndexInsertAbsent(ix, cert, t) ==
    [k \in DOMAIN ix \cup SigningKeyIds(cert, t) |->
        IF k \in DOMAIN ix THEN ix[k] ELSE cert.fp]

\* for ka in <signing keys of cert at t> { indexs.insert(ka.keyid(), Rc::downgrade(&cert)) }
IndexInsertAll(ix, cert, t) ==
    [k \in DOMAIN ix \cup SigningKeyIds(cert, t) |->
        IF k \in SigningKeyIds(cert, t) THEN cert.fp ELSE ix[k]]

\* for ka in <signing keys of cert at t> { indexs.remove(&ka.keyid()) }
IndexRemoveAll(ix, cert, t) ==
    [k \in DOMAIN ix \ SigningKeyIds(cert, t) |-> ix[k]]

\* the object of fingerprint f was dropped: every Weak to it stops upgrading
DropObject(ix, f) == [k \in DOMAIN ix |-> IF ix[k] = f THEN Dangling ELSE ix[k]]

\* Weak::upgrade
Upgrade(cs, w) == IF w = Dangling THEN NoCert ELSE CHOOSE d \in cs : d.fp = w

\* CertificationManager::get
Get(k) == IF k \in DOMAIN indexs THEN Upgrade(certs, indexs[k]) ELSE NoCert

(***************************************************************************)
(* CertificationManager::new: the loop over CertParser::from_reader(ifile) *)
(* from the i-th certificate of the file on; st is (certs, indexs,         *)
(* changed) as the loop has them before that certificate.                  *)
(***************************************************************************)
RECURSIVE LoadFrom(_, _, _, _)
LoadFrom(f, i, st, t) ==
    IF i > Len(f) THEN st
    ELSE LET cert == f[i]
             insert == ~HashSetContains(st.certs, cert)
         IN  LoadFrom(f, i + 1,
                      [ok      |-> TRUE,
                       certs   |-> HashSetInsert(st.certs, cert),
                       indexs  |-> IF insert THEN IndexInsertAll(st.indexs, cert, t)
                                             ELSE st.indexs,
                       changed |-> ~insert],
                      t)

EmptyStore == [ok |-> TRUE, certs |-> {}, indexs |-> EmptyIndex, changed |-> FALSE]

\* new() as it would be if it skipped bytes it cannot parse
LoadStoreLenient(fs, f, t) ==
    CASE fs \in {"ok", "corrupt"} -> LoadFrom(f, 1, EmptyStore, t)
      [] fs = "missing"           -> EmptyStore
      [] OTHER                    -> [ok |-> FALSE]

\* What new() builds at time t from the keyring path; ok is FALSE when it returns Err.
LoadStore(fs, f, t) ==
    CASE fs = "ok"      -> LoadFrom(f, 1, EmptyStore, t)
      [] fs = "missing" -> EmptyStore          \* io::ErrorKind::NotFound
      [] OTHER          -> [ok |-> FALSE]      \* other open error, or maybe_cert? fails
                                               \* and the locals built so far are dropped

\* The orders in which HashSet::iter may visit the set cs.
IterOrders(cs) ==
    {s \in [1..Cardinality(cs) -> cs] : \A i, j \in 1..Cardinality(cs) : s[i] = s[j] => i = j}

\* All keyring files of at most n certificates.
FilesUpTo(n) == UNION {[1..m -> Certs] : m \in 0..n}

(***************************************************************************)
(* The record text of a submit (api.rs, SubmitContent).  A text is a       *)
(* sequence of lines and a line a sequence of tokens: a field name, a      *)
(* colon, a space, or a piece of a value (a uuid, a digit, a sign, a       *)
(* letter).                                                                *)
(***************************************************************************)
Colon == ":"
Space == " "
UuidTokens == {"u1", "u2"}
DigitTokens == {"0", "7"}

\* str::split_once(':') : the position of the first colon from i on, 0 if none
RECURSIVE FirstColon(_, _)
FirstColon(line, i) ==
    IF i > Len(line) THEN 0
    ELSE IF line[i] = Colon THEN i ELSE FirstColon(line, i + 1)

\* str::trim
RECURSIVE TrimStart(_)
TrimStart(s) == IF s # <<>> /\ Head(s) = Space THEN TrimStart(Tail(s)) ELSE s

RECURSIVE TrimEnd(_)
TrimEnd(s) == IF s # <<>> /\ s[Len(s)] = Space THEN TrimEnd(SubSeq(s, 1, Len(s) - 1)) ELSE s

Trim(s) == TrimEnd(TrimStart(s))

\* Uuid::from_str, u64::from_str, f32::from_str succeed
IsUuid(v) == Len(v) = 1 /\ v[1] \in UuidTokens
IsU64(v) == Len(v) >= 1 /\ \A i \in 1..Len(v) : v[i] \in DigitTokens
IsF32(v) == IF v # <<>> /\ Head(v) = "-" THEN IsU64(Tail(v)) ELSE IsU64(v)

\* Option::None of tmp_uuid, tmp_timestamp, tmp_player_uuid, tmp_points
Unset == <<>>
NoRecord == [uuid |-> Unset, timestamp |-> Unset, player_uuid |-> Unset,
             points |-> Unset, comment |-> <<>>]

DecodeOk(rec) == [ok |-> TRUE, err |-> "", value |-> rec]
DecodeErr(e) == [ok |-> FALSE, err |-> e, value |-> NoRecord]

\* SubmitContent::read_from, the loop over buf.lines() from line i on and the
\* construction of the record after it
RECURSIVE ReadLines(_, _, _)
ReadLines(text, i, acc) ==
    IF i > Len(text)
    THEN CASE acc.uuid = Unset        -> DecodeErr("missing field")
           [] acc.timestamp = Unset   -> DecodeErr("missing field")
           [] acc.player_uuid = Unset -> DecodeErr("missing field")
           [] acc.points = Unset      -> DecodeErr("missing field")
           [] OTHER                   -> DecodeOk(acc)
    ELSE LET c == FirstColon(text[i], 1)
             key == Trim(SubSeq(text[i], 1, c - 1))
             value == Trim(SubSeq(text[i], c + 1, Len(text[i])))
         IN  CASE c = 0 -> ReadLines(text, i + 1, acc)
               [] c # 0 /\ key = <<"uuid">> ->
                    IF IsUuid(value) THEN ReadLines(text, i + 1, [acc EXCEPT !.uuid = value])
                                     ELSE DecodeErr("malformed field")
               [] c # 0 /\ key = <<"timestamp">> ->
                    IF IsU64(value) THEN ReadLines(text, i + 1, [acc EXCEPT !.timestamp = value])
                                    ELSE DecodeErr("malformed field")
               [] c # 0 /\ key = <<"player_uuid">> ->
                    IF IsUuid(value) THEN ReadLines(text, i + 1, [acc EXCEPT !.player_uuid = value])
                                     ELSE DecodeErr("malformed field")
               [] c # 0 /\ key = <<"points">> ->
                    IF IsF32(value) THEN ReadLines(text, i + 1, [acc EXCEPT !.points = value])
                                    ELSE DecodeErr("malformed field")
               [] c # 0 /\ key = <<"comment">> ->
                    ReadLines(text, i + 1, [acc EXCEPT !.comment = value])
               [] OTHER -> ReadLines(text, i + 1, acc)

ReadFrom(text) == ReadLines(text, 1, NoRecord)

\* The bodies that envelopes carry in this model: a complete record, one
\* without its uuid line, one whose timestamp is no number.
GoodBody == << <<"uuid", ":", " ", "u1">>,
               <<"timestamp", ":", " ", "7">>,
               <<"player_uuid", ":", " ", "u2">>,
               <<"points", ":", " ", "-", "7">>,
               <<"comment", ":", " ", "x">> >>
NoUuidBody == Tail(GoodBody)
BadTimestampBody == [GoodBody EXCEPT ![2] = <<"timestamp", ":", " ", "x">>]
Bodies == {GoodBody, NoUuidBody, BadTimestampBody}

(***************************************************************************)
(* Signed envelopes as the engine parses them: the body, whether the body  *)
(* is larger than the Verifier's buffer, and the layers around the body,   *)
(* outermost first.  A signature names its signer by key-id or by          *)
(* fingerprint; valid says that it is a signature of that key over this    *)
(* body (a signature made over other bytes, or damaged, is not).           *)
(***************************************************************************)
MaxSigs == 2        \* signatures in one envelope
MaxLayers == 2      \* layers around the body

SeqsUpTo(S, n) == UNION {[1..m -> S] : m \in 0..n}

Sigs == [handle : {"KeyID", "Fingerprint"}, key : Keys, valid : BOOLEAN]
SigLayer(ss) == [kind |-> "SignatureGroup", sigs |-> ss]
OtherLayer == [kind |-> "Compression", sigs |-> <<>>]
\* a signature group read from an envelope holds at least one signature
Layers == {SigLayer(ss) : ss \in SeqsUpTo(Sigs, MaxSigs) \ {<<>>}} \cup {OtherLayer}

RECURSIVE CountSigs(_)
CountSigs(ls) == IF ls = <<>> THEN 0 ELSE Len(Head(ls).sigs) + CountSigs(Tail(ls))

LayerSeqs == {ls \in SeqsUpTo(Layers, MaxLayers) : CountSigs(ls) <= MaxSigs}
Envelopes == [body : Bodies, big : BOOLEAN, layers : LayerSeqs]

NoEnvelope == [body |-> <<>>, big |-> FALSE, layers |-> <<>>]

\* The key handles the engine collects before the body and hands to get_certs.
RECURSIVE Issuers(_)
Issuers(ls) == IF ls = <<>> THEN <<>> ELSE Head(ls).sigs \o Issuers(Tail(ls))
ClaimedSigners(env) == Issuers(env.layers)

\* The certificate of the store that has a live signing key of fingerprint k
\* at the store's timestamp (the scan of get_certs for KeyHandle::Fingerprint).
ScanFingerprint(k) ==
    IF \E c \in certs : k \in SigningKeys(c, timestamp)
    THEN CHOOSE c \in certs : k \in SigningKeys(c, timestamp)
    ELSE NoCert

\* VerifyHelper::get_certs from the i-th handle on; acc are the certificates
\* pushed so far.
RECURSIVE GetCertsFrom(_, _, _)
GetCertsFrom(ids, i, acc) ==
    IF i > Len(ids) THEN [ok |-> TRUE, certs |-> acc]
    ELSE LET cert == IF ids[i].handle = "KeyID" THEN Get(KeyIdOf(ids[i].key))
                                                ELSE ScanFingerprint(ids[i].key)
         IN  IF cert = NoCert THEN [ok |-> FALSE, certs |-> <<>>]
                              ELSE GetCertsFrom(ids, i + 1, Append(acc, cert))

\* get_certs as it would be if an unresolved handle were skipped
GetCertsSkipping(ids) ==
    LET found == SelectSeq(ids, LAMBDA h :
                     IF h.handle = "KeyID" THEN Get(KeyIdOf(h.key)) # NoCert
                                           ELSE ScanFingerprint(h.key) # NoCert)
    IN  [ok |-> TRUE, certs |-> GetCertsFrom(found, 1, <<>>).certs]

GetCerts(ids) == GetCertsFrom(ids, 1, <<>>)

\* The engine's verdict on one signature, given the certificates get_certs
\* returned: it looks the signer up among them by the handle and verifies
\* the signature under that key, which must be a valid signing key.
SigResult(sig, cs, t) ==
    IF \E i \in 1..Len(cs) : sig.key \in SigningKeys(cs[i], t) /\ sig.valid
    THEN "Ok" ELSE "Err"

\* MessageStructure: the layers with the verdicts of their signatures; the
\* engine adds an empty signature group when the message carries none.
MessageStructure(env, cs, t) ==
    LET ls == IF \E i \in 1..Len(env.layers) : env.layers[i].kind = "SignatureGroup"
              THEN env.layers
              ELSE Append(env.layers, SigLayer(<<>>))
    IN  [i \in 1..Len(ls) |->
            [kind |-> ls[i].kind,
             results |-> [j \in 1..Len(ls[i].sigs) |-> SigResult(ls[i].sigs[j], cs, t)]]]

\* VerifyHelper::check from the i-th layer on (enumerate() counts from 0);
\* "" is Ok(()).
RECURSIVE CheckFrom(_, _, _)
CheckFrom(structure, i, good) ==
    IF i > Len(structure)
    THEN IF good THEN "" ELSE "Signature verification failed"
    ELSE IF i = 1 /\ structure[i].kind = "SignatureGroup"
         THEN CASE structure[i].results = <<>>      -> "No signature"
                [] structure[i].results # <<>> /\ Head(structure[i].results) = "Ok"
                                                    -> CheckFrom(structure, i + 1, TRUE)
                [] OTHER                            -> "VerificationError"
         ELSE "Unexpected message structure"

\* check as it would be if any verdict on the first signature set good
CheckAnyVerdict(structure) ==
    IF structure # <<>> /\ structure[1].kind = "SignatureGroup"
          /\ structure[1].results # <<>>
          /\ Head(structure[1].results) # "Ok"
    THEN CheckFrom([structure EXCEPT ![1].results[1] = "Ok"], 1, FALSE)
    ELSE CheckFrom(structure, 1, FALSE)

\* check as it would be if it looked at the outermost layer only
CheckFirstLayerOnly(structure) == CheckFrom(SubSeq(structure, 1, 1), 1, FALSE)

Check(structure) == CheckFrom(structure, 1, FALSE)

\* The failures of verify, by the message or type of the error it returns.
AuthErrors == {"cert not find", "No signature", "Unexpected message structure",
               "VerificationError", "Signature verification failed"}
DecodeErrors == {"missing field", "malformed field"}

ErrorKind(e) ==
    CASE e = "cert not find"                 -> "CertNotFound"
      [] e = "No signature"                  -> "NoSignature"
      [] e = "Unexpected message structure"  -> "StructureRejected"
      [] e = "VerificationError"             -> "SignatureVerificationFailed"
      [] e = "Signature verification failed" -> "SignatureVerificationFailed"
      [] e \in DecodeErrors                  -> "ContentDecodeFailed"
      [] OTHER                               -> "None"

\* What one call of verify does: its result, whether f was called, and
\* whether f was handed bytes of the body before check had accepted.
VerifyOut(isOk, e, v, called, early) ==
    [ok |-> isOk, err |-> e, value |-> v, fInvoked |-> called, fEarly |-> early]

\* verify as it would be if a failure of f were reported like a failed check
VerifyRunMasking(env) ==
    LET gc == GetCerts(ClaimedSigners(env))
        chk == Check(MessageStructure(env, gc.certs, now))
        dec == ReadFrom(env.body)
    IN  CASE ~gc.ok                -> VerifyOut(FALSE, "cert not find", NoRecord, FALSE, FALSE)
          [] gc.ok /\ chk # ""     -> VerifyOut(FALSE, chk, NoRecord, env.big, env.big)
          [] OTHER                 -> VerifyOut(dec.ok,
                                                IF dec.ok THEN "" ELSE "Signature verification failed",
                                                dec.value, TRUE, env.big)

\* pgp::verify(cmgr, signed, f) with f = transfer (SubmitContent::read_from).
\* VerifierBuilder::with_policy asks get_certs and, when the body fits the
\* Verifier's buffer, runs check before it returns.  A larger body is
\* streamed: f reads it through the Verifier, check runs when the stream
\* ends, and a failure of check is the error of f's last read.
VerifyRun(env) ==
    LET gc == GetCerts(ClaimedSigners(env))
        chk == Check(MessageStructure(env, gc.certs, now))
        dec == ReadFrom(env.body)
    IN  CASE ~gc.ok                -> VerifyOut(FALSE, "cert not find", NoRecord, FALSE, FALSE)
          [] gc.ok /\ chk # ""     -> VerifyOut(FALSE, chk, NoRecord, env.big, env.big)
          [] OTHER                 -> VerifyOut(dec.ok, dec.err, dec.value, TRUE, env.big)

\* build_signer(w, keypairs) and the write of the content through it: one
\* signature group over the body with one signature per key, the popped
\* (last) key first; each names its signer by key-id.
SignedBy(k) == [handle |-> "KeyID", key |-> k, valid |-> TRUE]

\* A signer that forgets add_signer.
SignEnvelopeOneSigner(body, big, keypairs) ==
    [body |-> body, big |-> big,
     layers |-> << SigLayer(<<SignedBy(keypairs[Len(keypairs)])>>) >>]

SignEnvelope(body, big, keypairs) ==
    [body |-> body, big |-> big,
     layers |-> << SigLayer(<<SignedBy(keypairs[Len(keypairs)])>>
                            \o [j \in 1..(Len(keypairs) - 1) |-> SignedBy(keypairs[j])]) >>]

\* The result of build_signer and of the writes through the Message it
\* returns; w: what has reached the output.
SignOut(ok, err, w) == [ok |-> ok, err |-> err, w |-> w]

\* A build_signer that wraps w before it looks at the keys.
BuildSignerWrappingFirst(body, big, keypairs) ==
    IF keypairs = <<>>
    THEN SignOut(FALSE, "No signing keys found", <<NoEnvelope>>)
    ELSE SignOut(TRUE, "", <<SignEnvelope(body, big, keypairs)>>)

\* build_signer(w, keypairs), the content written through it
BuildSigner(body, big, keypairs) ==
    IF keypairs = <<>>
    THEN SignOut(FALSE, "No signing keys found", <<>>)
    ELSE SignOut(TRUE, "", <<SignEnvelope(body, big, keypairs)>>)

(***************************************************************************)
(* The signing key of a command (command/mod.rs, SigningKeyPairGenerator,  *)
(* and pgp.rs, get_signing_key).  The certificate handed to generate is    *)
(* the user's own: a copy of a certificate together with what it holds of  *)
(* each key's secret: nothing, the plain secret, the secret encrypted      *)
(* under a passphrase, or an Encrypted packet whose cipher is Unencrypted. *)
(***************************************************************************)
MaxPrompts == 2     \* the PasswordProvider is asked at most MaxPrompts times per key-id

SecretKinds == {"none", "plain", "encrypted", "nullcipher"}

OwnCerts ==
    UNION {[fp : {c.fp}, keys : {c.keys}, secret : [c.keys -> SecretKinds]] : c \in Certs}

\* What the PasswordProvider does when asked: it fails, or it returns a
\* passphrase that decrypts the secret or one that does not.
Passwords == {"fails", "wrong", "right"}

\* cert.keys() visits the primary key first and then the subkeys in order
SortedKeys(S) ==
    CHOOSE q \in [1..Cardinality(S) -> S] : \A i, j \in 1..Cardinality(S) : i < j => q[i] < q[j]

\* The keys the loop of get_signing_key visits: the signing keys of cert at
\* t with the key-id asked for.
MatchingKeys(cert, key_id, t) ==
    SortedKeys({k \in SigningKeys(cert, t) : KeyIdOf(k) = key_id})

NoKey == 0

KeyOk(k, n) == [ok |-> TRUE, err |-> "", key |-> k, prompted |-> n]
KeyErr(e, n) == [ok |-> FALSE, err |-> e, key |-> NoKey, prompted |-> n]

\* get_signing_key from the i-th matching key on; pw is what the
\* PasswordProvider does when it is asked.
RECURSIVE GetSigningKeyFrom(_, _, _, _)
GetSigningKeyFrom(cert, ks, i, pw) ==
    IF i > Len(ks) THEN KeyErr("Found no suitable signing key", 0)
    ELSE CASE cert.secret[ks[i]] = "plain"      -> KeyOk(ks[i], 0)
           [] cert.secret[ks[i]] = "encrypted"  ->
                 CASE pw = "fails" -> KeyErr("provide failed", 1)
                   [] pw = "wrong" -> KeyErr("decrypt failed", 1)
                   [] OTHER        -> KeyOk(ks[i], 1)
           [] OTHER                             -> GetSigningKeyFrom(cert, ks, i + 1, pw)

\* get_signing_key as it would be if it asked again after a wrong passphrase
GetSigningKeyAskingTwice(cert, key_id, t, pw) ==
    LET r == GetSigningKeyFrom(cert, MatchingKeys(cert, key_id, t), 1, pw)
    IN  IF r.err = "decrypt failed" THEN [r EXCEPT !.prompted = 2] ELSE r

GetSigningKey(cert, key_id, t, pw) ==
    GetSigningKeyFrom(cert, MatchingKeys(cert, key_id, t), 1, pw)

\* The failures of generate, by the error it returns.
ResolveErrorKind(e) ==
    CASE e = "Found no suitable signing key" -> "NoSuitableSigningKey"
      [] e = "provide failed"                -> "PasswordRequired"
      [] e = "decrypt failed"                -> "PasswordIncorrect"
      [] OTHER                               -> "None"

\* Option::None of the cache
NoCache == [key_id |-> 0, keypair |-> NoKey]

\* What one call of generate does to the cache c and what it returns; hit
\* says that the key came from the cache.
GenerateOut(c, r, h) ==
    [cache |-> c, ok |-> r.ok, err |-> r.err, key |-> r.key, prompted |-> r.prompted, hit |-> h]

\* generate as it would be if it kept a cache entry of another key-id
GenerateRunKeeping(c, cert, key_id, t, pw) ==
    IF c # NoCache /\ c.key_id = key_id
    THEN GenerateOut(c, KeyOk(c.keypair, 0), TRUE)
    ELSE LET r == GetSigningKey(cert, key_id, t, pw)
         IN  GenerateOut(IF r.ok /\ c = NoCache THEN [key_id |-> key_id, keypair |-> r.key] ELSE c,
                         r, FALSE)

\* SigningKeyPairGenerator::generate(cert, key_id, timestamp)
GenerateRun(c, cert, key_id, t, pw) ==
    IF c # NoCache /\ c.key_id = key_id
    THEN GenerateOut(c, KeyOk(c.keypair, 0), TRUE)
    ELSE LET r == GetSigningKey(cert, key_id, t, pw)
         IN  GenerateOut(IF r.ok THEN [key_id |-> key_id, keypair |-> r.key] ELSE c,
                         r, FALSE)

\* Before the first call of generate: no prompt was made, no key-id was
\* resolved.
NoCall == [done |-> FALSE, cert |-> NoCert, key_id |-> 0, at |-> 0, pw |-> "right",
           before |-> NoCache, out |-> GenerateOut(NoCache, KeyErr("", 0), FALSE)]

\* prompts: how often the PasswordProvider was asked per key-id; refused: a
\* call has failed after asking it; resolved: the key-ids of the calls that
\* succeeded; call: the last call.
NoLog == [prompts |-> [k \in KeyIds |-> 0], refused |-> FALSE, resolved |-> {}, call |-> NoCall]

(***************************************************************************)
(* SubmitContent on the wire: write_to prints the fields, read_from parses *)
(* them.  A text is a sequence of tokens, Newline among them.              *)
(***************************************************************************)
Newline == "\n"

\* <u64 as Display>::fmt and u64::from_str over the digits of this model,
\* "0" and "7"
RECURSIVE FmtU64(_)
FmtU64(n) ==
    LET digit == IF n % 10 = 0 THEN "0" ELSE "7"
    IN  IF n < 10 THEN <<digit>> ELSE FmtU64(n \div 10) \o <<digit>>

RECURSIVE ParseU64(_)
ParseU64(v) ==
    LET value == IF v[Len(v)] = "0" THEN 0 ELSE 7
    IN  IF Len(v) = 1 THEN value ELSE 10 * ParseU64(SubSeq(v, 1, Len(v) - 1)) + value

\* <Uuid as Display>::fmt and Uuid::from_str
FmtUuid(u) == IF u = 1 THEN <<"u1">> ELSE <<"u2">>
ParseUuid(v) == IF v = <<"u1">> THEN 1 ELSE 2

\* <f32 as Display>::fmt and f32::from_str
FmtF32(p) == IF p < 0 THEN <<"-">> \o FmtU64(0 - p) ELSE FmtU64(p)
ParseF32(v) == IF Head(v) = "-" THEN 0 - ParseU64(Tail(v)) ELSE ParseU64(v)

\* SubmitContent::write_to
WriteTo(rec) ==
    <<"uuid", Colon, Space>> \o FmtUuid(rec.uuid) \o <<Newline>> \o
    <<"timestamp", Colon, Space>> \o FmtU64(rec.timestamp) \o <<Newline>> \o
    <<"player_uuid", Colon, Space>> \o FmtUuid(rec.player_uuid) \o <<Newline>> \o
    <<"points", Colon, Space>> \o FmtF32(rec.points) \o <<Newline>> \o
    <<"comment", Colon, Space>> \o rec.comment \o <<Newline>>

\* str::lines : the text between line breaks; a last line needs no line break
RECURSIVE LinesFrom(_, _, _)
LinesFrom(buf, cur, acc) ==
    IF buf = <<>> THEN (IF cur = <<>> THEN acc ELSE Append(acc, cur))
    ELSE IF Head(buf) = Newline THEN LinesFrom(Tail(buf), <<>>, Append(acc, cur))
    ELSE LinesFrom(Tail(buf), Append(cur, Head(buf)), acc)

Lines(buf) == LinesFrom(buf, <<>>, <<>>)

\* the text of a sequence of lines, each ended by a line break
RECURSIVE Unlines(_)
Unlines(ls) == IF ls = <<>> THEN <<>> ELSE Head(ls) \o <<Newline>> \o Unlines(Tail(ls))

\* struct SubmitContent, and the value of a failed read
SubmitContent(uuid, ts, player_uuid, points, comment) ==
    [uuid |-> uuid, timestamp |-> ts, player_uuid |-> player_uuid,
     points |-> points, comment |-> comment]

NoContent == SubmitContent(0, 0, 0, 0, <<>>)

\* A read_from that knows one error only.
DecodeOneError(buf) ==
    LET r == ReadFrom(Lines(buf))
    IN  IF r.ok
        THEN [ok |-> TRUE, err |-> "",
              value |-> SubmitContent(ParseUuid(r.value.uuid), ParseU64(r.value.timestamp),
                                      ParseUuid(r.value.player_uuid), ParseF32(r.value.points),
                                      r.value.comment)]
        ELSE [ok |-> FALSE, err |-> "missing field", value |-> NoContent]

\* SubmitContent::read_from on the bytes of buf: the record built from the
\* parsed fields
Decode(buf) ==
    LET r == ReadFrom(Lines(buf))
    IN  IF r.ok
        THEN [ok |-> TRUE, err |-> "",
              value |-> SubmitContent(ParseUuid(r.value.uuid), ParseU64(r.value.timestamp),
                                      ParseUuid(r.value.player_uuid), ParseF32(r.value.points),
                                      r.value.comment)]
        ELSE [ok |-> FALSE, err |-> r.err, value |-> NoContent]

\* The records of this model.  A comment is any text of up to MaxComment
\* tokens, or a line break followed by the text of a uuid line.
MaxComment == 2     \* a comment holds at most MaxComment tokens
MaxEdits == 2       \* a text is changed at most MaxEdits times on its way

Comments ==
    SeqsUpTo({"x", Colon, Space, Newline}, MaxComment) \cup {<<Newline, "uuid", Colon, "u2">>}
Records == {SubmitContent(u, t, p, s, c) :
                u \in {1, 2}, t \in {0, 70}, p \in {2}, s \in {0 - 7, 70}, c \in Comments}

\* The lines put into a text on its way: one with an unknown name, one with
\* an unknown name and a known one behind it, a timestamp that is no
\* number, points without a value.
UnknownLines == { <<"note", Colon, Space, "x">>, <<"note", Colon, "uuid", Colon, "u2">> }
MalformedLines == { <<"timestamp", Colon, Space, "x">>, <<Space, "points", Space, Colon>> }

\* codec.rec: the record written; buf: the text; shape: "encoded" as
\* write_to left it, "rearranged" after lines were swapped or unknown lines
\* added, "damaged" after anything else; edits: the changes made to the
\* text; out: what read_from returned
NoCodec == [stage |-> "idle", rec |-> NoContent, buf |-> <<>>, shape |-> "encoded",
            edits |-> 0, out |-> [ok |-> FALSE, err |-> "", value |-> NoContent]]

(***************************************************************************)
(* The client configuration (config/mod.rs, FileConfig; config/client.rs,  *)
(* ClientData and ClientConfig; command/mod.rs, command_register).  None   *)
(* is 0.  The certificate file at path p holds a certificate whose one     *)
(* secret key has key-id p; the file at path 3 holds no certificate.       *)
(***************************************************************************)
CertPaths == {1, 2, 3}
KeyIdArgs == {1, 2}
ServerUuids == {1, 2}

\* pgp::load_cert(path) succeeds; pgp::check_secret_key(cert, policy, None, key_id)
LoadCertOk(path) == path \in {1, 2}
CheckSecretKey(cert, key_id) == key_id = cert

\* struct ClientData; cert is the field serde skips
ClientData(cert_file, key_id, server_uuid, api_url, cert) ==
    [cert_file |-> cert_file, key_id |-> key_id, server_uuid |-> server_uuid,
     api_url |-> api_url, cert |-> cert]

DefaultData == ClientData(0, 0, 0, 0, 0)

ClientDatas == {ClientData(f, k, u, a, 0) :
                    f \in CertPaths \cup {0}, k \in KeyIdArgs \cup {0},
                    u \in ServerUuids \cup {0}, a \in {0, 1}}

\* serde_json::to_writer_pretty(&mut ofile, &self.data): the members of the
\* json object, one for each field that is Some; cert is skipped
Serialize(data) ==
    {<<f, data[f]>> : f \in {g \in {"cert_file", "key_id", "server_uuid", "api_url"} : data[g] # 0}}

\* serde_json::from_reader(ifile): a field without a member is None
Deserialize(json) ==
    LET field(f) == IF \E m \in json : m[1] = f THEN (CHOOSE m \in json : m[1] = f)[2] ELSE 0
    IN  ClientData(field("cert_file"), field("key_id"), field("server_uuid"), field("api_url"), 0)

\* The file at the path of the configuration: "missing", "empty" (of no
\* bytes), or "json".
NoFile == [state |-> "missing", json |-> {}]
JsonFile(data) == [state |-> "json", json |-> Serialize(data)]

\* ClientData::update(policy): Ok(ret) or Err, and the data it leaves
Update(data) ==
    CASE data.cert_file = 0 -> [ok |-> TRUE, ret |-> FALSE, data |-> data]
      [] data.cert_file # 0 /\ ~LoadCertOk(data.cert_file) ->
            [ok |-> FALSE, ret |-> TRUE, data |-> [data EXCEPT !.cert_file = 0]]
      [] data.cert_file # 0 /\ LoadCertOk(data.cert_file)
            /\ data.key_id # 0 /\ ~CheckSecretKey(data.cert_file, data.key_id) ->
            [ok |-> FALSE, ret |-> TRUE, data |-> [data EXCEPT !.cert = data.cert_file, !.key_id = 0]]
      [] OTHER -> [ok |-> TRUE, ret |-> FALSE, data |-> [data EXCEPT !.cert = data.cert_file]]

\* ClientData::try_update_cert_file(cert_file, policy), as the callback of
\* set_cert_file
TryUpdateCertFile(data, path) ==
    CASE ~LoadCertOk(path) -> [ok |-> TRUE, ret |-> FALSE, data |-> data]
      [] LoadCertOk(path) /\ data.key_id # 0 /\ ~CheckSecretKey(path, data.key_id) ->
            [ok |-> TRUE, ret |-> FALSE,
             data |-> [data EXCEPT !.cert_file = path, !.cert = path, !.key_id = 0]]
      [] OTHER -> [ok |-> TRUE, ret |-> TRUE, data |-> [data EXCEPT !.cert_file = path, !.cert = path]]

\* ClientData::try_update_key_id(key_id, policy), as the callback of set_key_id
TryUpdateKeyId(data, key_id) ==
    IF data.cert # 0 /\ ~CheckSecretKey(data.cert, key_id)
    THEN [ok |-> TRUE, ret |-> FALSE, data |-> data]
    ELSE [ok |-> TRUE, ret |-> TRUE, data |-> [data EXCEPT !.key_id = key_id]]

\* FileConfig::modify(callback) on the FileConfig c, r what the callback did
Modify(c, r) ==
    IF r.ok THEN [c EXCEPT !.data = r.data, !.changed = r.ret]
    ELSE [c EXCEPT !.data = r.data, !.changed = TRUE]

\* FileConfig::get_data_mut() and the assignment through it
GetDataMut(c, data) == [c EXCEPT !.data = data, !.changed = TRUE]

\* FileConfig::new(path, default): the data, and the file it leaves
FileConfigNew(f) ==
    CASE f.state = "json" ->
            [ok |-> TRUE, file |-> f, data |-> Deserialize(f.json), found |-> TRUE]
      [] f.state = "missing" ->
            [ok |-> TRUE, file |-> [state |-> "empty", json |-> {}], data |-> DefaultData,
             found |-> FALSE]
      [] OTHER ->
            [ok |-> FALSE, file |-> f, data |-> DefaultData, found |-> TRUE]

\* FileConfig::save: the file it leaves
FileConfigSave(c, f) == IF c.changed THEN JsonFile(c.data) ELSE f

\* A command_register that stores a uuid before it asks the server.
CommandRegisterEager(c, keyok, resp) ==
    [ok |-> c.data.cert # 0 /\ c.data.key_id # 0 /\ keyok /\ c.data.api_url # 0 /\ resp # 0,
     cfg |-> GetDataMut(c, [c.data EXCEPT !.server_uuid = IF resp # 0 THEN resp ELSE 1])]

\* command_register(cfg, httpc, kpg, server_name); keyok: kpg.generate
\* succeeds; resp: the uuid of the RegisterResponse, 0 when the request fails
CommandRegister(c, keyok, resp) ==
    IF c.data.cert # 0 /\ c.data.key_id # 0 /\ keyok /\ c.data.api_url # 0 /\ resp # 0
    THEN [ok |-> TRUE, cfg |-> GetDataMut(c, [c.data EXCEPT !.server_uuid = resp])]
    ELSE [ok |-> FALSE, cfg |-> c]

\* cfg: the FileConfig<ClientData> of the running command, if any
NoConfig == [open |-> FALSE, data |-> DefaultData, changed |-> FALSE]

\* clog.base: the data last loaded from or saved to the file; created: new
\* found no file in this run; touched: a setter or a command has run since
\* new; pristine: the run before found no file and touched nothing; newres:
\* what new returned in this run; after: the run before was pristine; reg:
\* the last call of command_register and the server_uuid before it
NoConfigLog == [base |-> {}, created |-> FALSE, touched |-> FALSE,
                pristine |-> FALSE, newres |-> "none", after |-> FALSE,
                reg |-> [done |-> FALSE, ok |-> FALSE, resp |-> 0, before |-> 0]]

(***************************************************************************)
(* The local records (config/records.rs, RecordConfig).                    *)
(***************************************************************************)
Players == {1, 2}
\* the longest ban list handed to command_import
MaxBan == 2
RecordUuids == {1, 2, 3}

\* The RecordConfig of a command: cache maps record_uuid to player_uuid,
\* index player_uuid to record_uuid, 0 for no entry; change holds the
\* Record::Submit ("+") and Record::Recall ("-") lines to be appended.
NoRecordConfig ==
    [open |-> FALSE, cache |-> [r \in RecordUuids |-> 0], index |-> [p \in Players |-> 0],
     change |-> <<>>]

\* RecordConfig::new, the loop over the lines of the file from line i on
RECURSIVE Replay(_, _, _)
Replay(lines, i, c) ==
    IF i > Len(lines) THEN c
    ELSE Replay(lines, i + 1,
                [c EXCEPT ![lines[i].record_uuid] =
                              IF lines[i].sign = "+" THEN lines[i].player_uuid ELSE 0])

\* RecordConfig::new, the loop over cache.iter() that fills index: every
\* index that some order of the iteration leaves
IndexesOf(c) ==
    {ix \in [Players -> RecordUuids \cup {0}] :
        \A p \in Players : IF \E r \in RecordUuids : c[r] = p
                           THEN ix[p] # 0 /\ c[ix[p]] = p
                           ELSE ix[p] = 0}

\* RecordConfig::new_submit(record_uuid, timestamp, player_uuid)
NewSubmit(rc, r, p) ==
    IF rc.cache[r] # 0 THEN rc
    ELSE [rc EXCEPT !.cache[r] = p, !.index[p] = r, !.change = Append(@, [sign |-> "+", record_uuid |-> r, player_uuid |-> p])]

\* RecordConfig::new_recall(record_uuid, timestamp)
NewRecall(rc, r) ==
    IF rc.cache[r] = 0 THEN rc
    ELSE [rc EXCEPT !.cache[r] = 0, !.index[rc.cache[r]] = 0,
                    !.change = Append(@, [sign |-> "-", record_uuid |-> r, player_uuid |-> 0])]

\* the loop of command_import as it would be if it did not look up the
\* player before it submits
RECURSIVE ImportFromBlind(_, _, _, _, _)
ImportFromBlind(rc, banlist, i, resps, log) ==
    IF i > Len(banlist) THEN [records |-> rc, log |-> log]
    ELSE LET s == resps[Len(log.requests) + 1]
             asked == [log EXCEPT !.requests = Append(@, banlist[i])]
         IN  IF s = 0 THEN [records |-> rc, log |-> [asked EXCEPT !.failed = TRUE]]
             ELSE ImportFromBlind(NewSubmit(rc, s, banlist[i]), banlist, i + 1, resps,
                                  [asked EXCEPT !.accepted = Append(@, s)])

\* command_import, the loop over the ban list from item i on.  rc is the
\* RecordConfig and log what the loop has asked of the server so far;
\* resps[n] is the uuid of the SubmitResponse to the n-th request, 0 when
\* that request fails.
RECURSIVE ImportFrom(_, _, _, _, _)
ImportFrom(rc, banlist, i, resps, log) ==
    IF i > Len(banlist) THEN [records |-> rc, log |-> log]
    ELSE IF rc.index[banlist[i]] # 0 THEN ImportFrom(rc, banlist, i + 1, resps, log)
    ELSE LET s == resps[Len(log.requests) + 1]
             asked == [log EXCEPT !.requests = Append(@, banlist[i])]
         IN  IF s = 0 THEN [records |-> rc, log |-> [asked EXCEPT !.failed = TRUE]]
             ELSE ImportFrom(NewSubmit(rc, s, banlist[i]), banlist, i + 1, resps,
                             [asked EXCEPT !.accepted = Append(@, s)])

\* What a command over the records has asked of the server: op, the
\* command; banlist, the players of its ban list (of command_submit: the one
\* player); resps, the answers of the server it has asked for; requests, the players of the
\* requests sent; accepted, the uuids of the SubmitResponses; failed, a
\* request has failed.
NoRun == [op |-> "none", banlist |-> <<>>, resps |-> <<>>, requests |-> <<>>,
          accepted |-> <<>>, failed |-> FALSE]

\* the record file: found, once a RecordConfig::new has created it; its lines
NoRecordFile == [found |-> FALSE, lines |-> <<>>]

\* the server has never handed out the uuid r
Fresh(r) ==
    /\ \A i \in 1..Len(rfile.lines) : rfile.lines[i].record_uuid # r
    /\ \A i \in 1..Len(records.change) : records.change[i].record_uuid # r

\* signer.keypairs: the keys handed to build_signer; out: what it returned
NoSigner == [stage |-> "idle", body |-> <<>>, big |-> FALSE, keypairs |-> <<>>,
             out |-> SignOut(FALSE, "", <<>>)]

(***************************************************************************)
(* The server registry (config/servers.rs, ServersConfig): the servers     *)
(* file holds the key-id of each server uuid, the keyring file the         *)
(* certificates; in memory every entry carries its certificate.            *)
(***************************************************************************)
\* no entry of the servers map
NoServer == [key_id |-> 0, cert |-> NoCert]

\* json: the servers file is "missing", "empty" (created, never written) or
\* "ok"; data: the key-id it holds per server uuid, 0 for none; keyring: the
\* keyring file is "missing" or "ok"; certs: the certificates in it
NoServersFiles ==
    [json |-> "missing", data |-> [u \in ServerUuids |-> 0], keyring |-> "missing", certs |-> <<>>]

NoServersConfig == [open |-> FALSE, data |-> [u \in ServerUuids |-> NoServer], changed |-> FALSE]

\* pgp::iter_cert(cert, policy, None): the key-ids of the certificate, in the
\* order of cert.keys(), of the keys that pgp::check_key accepts
IterCert(cert, t) ==
    LET ks == SortedKeys(SigningKeys(cert, t))
    IN  [i \in 1..Len(ks) |-> KeyIdOf(ks[i])]

\* pgp::check_key(cert, policy, None, key_id)
CheckKey(cert, t, key_id) == \E k \in SigningKeys(cert, t) : KeyIdOf(k) = key_id

\* The maps from key-id to server that the loop over data.values_mut() of
\* ServersConfig::new can build: for each key-id in the file, one of the
\* servers that state it (the one the iteration visits last).
ServerIndexes(f) ==
    {ix \in [{f.data[u] : u \in ServerUuids} \ {0} -> ServerUuids] :
        \A k \in DOMAIN ix : f.data[ix[k]] = k}

\* ServersConfig::new(path, cert_file, policy) at time t, ix being the map
\* from key-id to server that its first loop has built: FileConfig::new
\* reads the servers file (and creates it when it is missing); every
\* certificate of the keyring is attached to the server of the first of its
\* key-ids that the map holds; the entries without a certificate are dropped.
ServersLoad(f, ix, t) ==
    LET AttachTo(cert) ==
            LET ks == IterCert(cert, t)
                hits == {i \in 1..Len(ks) : ks[i] \in DOMAIN ix}
            IN  IF hits = {} THEN 0 ELSE ix[ks[CHOOSE i \in hits : \A j \in hits : i <= j]]
        From(u) == {i \in 1..Len(f.certs) : AttachTo(f.certs[i]) = u}
        data == [u \in ServerUuids |->
                    IF f.data[u] = 0 \/ From(u) = {} THEN NoServer
                    ELSE [key_id |-> f.data[u],
                          cert |-> f.certs[CHOOSE i \in From(u) : \A j \in From(u) : j <= i]]]
    IN  [ok    |-> f.json # "empty",
         files |-> [f EXCEPT !.json = IF @ = "missing" THEN "empty" ELSE @, !.keyring = "ok"],
         cfg   |-> [open |-> TRUE, data |-> data,
                    changed |-> \E u \in ServerUuids : f.data[u] # 0 /\ From(u) = {}]]

\* the orders in which data.values() can visit the entries of sc
ValuesOrders(sc) ==
    LET us == {u \in ServerUuids : sc.data[u] # NoServer}
    IN  {o \in [1..Cardinality(us) -> us] : \A i, j \in 1..Cardinality(us) : o[i] = o[j] => i = j}

\* ServersConfig::save, order being the order of data.values(): when
\* FileConfig::save has written the servers file, the keyring file is
\* rewritten with the certificate of every entry
ServersSave(sc, f, order) ==
    IF sc.changed
    THEN [f EXCEPT !.json = "ok",
                   !.data = [u \in ServerUuids |-> sc.data[u].key_id],
                   !.certs = [i \in 1..Len(order) |-> sc.data[order[i]].cert]]
    ELSE f

\* added[u]: add has returned true for u and no remove of u has since; call:
\* the last call of add or remove: the uuid, whether the uuid had no entry
\* (vacant), the certificate callback succeeded (cb) and the certificate
\* owned the key-id stated (owns), and what the call returned
NoServersLog ==
    [added |-> [u \in ServerUuids |-> FALSE],
     call  |-> [op |-> "none", uuid |-> 0, vacant |-> FALSE, cb |-> FALSE, owns |-> FALSE,
                ret |-> "false"]]

\* verified: the record was printed under "+ Verified Message"; server: the
\* uuid of the server whose certificate was handed to pgp::verify and who
\* was printed with the record; content_uuid: the server uuid of the
\* SubmitContent printed
NoShown == [verified |-> FALSE, server |-> 0, content_uuid |-> 0]

ServersIdle ==
    /\ sfiles = NoServersFiles
    /\ servers = NoServersConfig
    /\ slog = NoServersLog
    /\ shown = NoShown

AppIdle ==
    /\ codec = NoCodec
    /\ signer = NoSigner
    /\ cfile = NoFile
    /\ cfg = NoConfig
    /\ clog = NoConfigLog
    /\ rfile = NoRecordFile
    /\ records = NoRecordConfig
    /\ run = NoRun
    /\ ServersIdle

\* The record of a store operation.
Called(op, arg, ret, hit, saved) ==
    [op |-> op, arg |-> arg, ret |-> ret, hit |-> hit, saved |-> saved]

NoVerify == [done |-> FALSE, at |-> 0, env |-> NoEnvelope,
             out |-> VerifyOut(FALSE, "", NoRecord, FALSE, FALSE)]

Init ==
    /\ now = 0
    /\ fstate \in {"missing", "ok", "denied", "corrupt"}
    \* of a corrupt file, file holds the certificates in front of the bad bytes
    /\ file \in IF fstate \in {"ok", "corrupt"} THEN FilesUpTo(MaxFile) ELSE {<<>>}
    /\ opened = FALSE
    /\ certs = {}
    /\ indexs = EmptyIndex
    /\ changed = FALSE
    /\ timestamp = 0
    /\ last = Called("init", NoCert, FALSE, FALSE, FALSE)
    /\ vres = NoVerify
    /\ cache = NoCache
    /\ rlog = NoLog
    /\ AppIdle

\* Time passes.
Tick ==
    /\ now < MaxTime
    /\ now' = now + 1
    /\ UNCHANGED <<fstate, file, opened, certs, indexs, changed, timestamp, last, vres, cache, rlog, avars>>

\* CertificationManager::new(path, p)
New ==
    /\ ~opened
    /\ LET st == LoadStore(fstate, file, now)
       IN  IF ~st.ok
           THEN /\ last' = Called("new", NoCert, FALSE, FALSE, FALSE)
                /\ UNCHANGED <<opened, certs, indexs, changed, timestamp>>
           ELSE /\ opened' = TRUE
                /\ certs' = st.certs
                /\ indexs' = st.indexs
                /\ changed' = st.changed
                /\ timestamp' = now
                /\ last' = Called("new", NoCert, TRUE, FALSE, FALSE)
    /\ UNCHANGED <<now, fstate, file, vres, cache, rlog, avars>>

\* add as it would be if it left the dirty flag alone
AddKeepingFlag(cert) ==
    /\ opened
    /\ LET insert == ~HashSetContains(certs, cert)
       IN  /\ certs' = HashSetInsert(certs, cert)
           /\ indexs' = IF insert THEN IndexInsertAll(indexs, cert, now) ELSE indexs
           /\ changed' = changed
           /\ last' = Called("add", cert, insert, last.hit \/ insert, last.saved)
    /\ UNCHANGED <<now, fstate, file, opened, timestamp, vres, cache, rlog, avars>>

\* CertificationManager::add(cert)
Add(cert) ==
    /\ opened
    /\ LET insert == ~HashSetContains(certs, cert)
       IN  /\ certs' = HashSetInsert(certs, cert)
           /\ indexs' = IF insert THEN IndexInsertAll(indexs, cert, now) ELSE indexs
           /\ changed' = IF insert THEN TRUE ELSE changed
           /\ last' = Called("add", cert, insert, last.hit \/ insert, last.saved)
    /\ UNCHANGED <<now, fstate, file, opened, timestamp, vres, cache, rlog, avars>>

\* CertificationManager::remove(cert).  As in command_cert_remove, the caller
\* hands in the Rc it got from the store (or asks for a fingerprint the store
\* does not hold).  The set drops its object; the caller's own reference is
\* gone when the command has finished with it.
Remove(cert) ==
    /\ opened
    /\ cert \in certs \/ ~HashSetContains(certs, cert)
    /\ LET remove == HashSetContains(certs, cert)
       IN  /\ certs' = HashSetRemove(certs, cert)
           /\ indexs' = IF remove
                        THEN DropObject(IndexRemoveAll(indexs, cert, timestamp), cert.fp)
                        ELSE indexs
           /\ changed' = IF remove THEN TRUE ELSE changed
           /\ last' = Called("remove", cert, remove, last.hit \/ remove, last.saved)
    /\ UNCHANGED <<now, fstate, file, opened, timestamp, vres, cache, rlog, avars>>

\* CertificationManager::save: File::create, then every certificate of the set
Save ==
    /\ opened
    /\ fstate' = "ok"
    /\ file' \in IterOrders(certs)
    /\ last' = Called("save", NoCert, TRUE, last.hit, TRUE)
    /\ UNCHANGED <<now, opened, certs, indexs, changed, timestamp, vres, cache, rlog, avars>>

\* Drop for CertificationManager, at the end of the command that opened it
Drop ==
    /\ opened
    /\ IF changed
       THEN /\ fstate' = "ok"
            /\ file' \in IterOrders(certs)
       ELSE UNCHANGED <<fstate, file>>
    /\ opened' = FALSE
    /\ certs' = {}
    /\ indexs' = EmptyIndex
    /\ changed' = FALSE
    /\ timestamp' = 0
    /\ last' = Called("drop", NoCert, changed, last.hit, last.saved)
    /\ vres' = NoVerify
    /\ UNCHANGED <<now, cache, rlog, avars>>

\* A command with an open store verifies the envelope it fetched
\* (command_get_submit: pgp::verify(&cmgr, s.content.as_bytes(), transfer)).
\* verify changes nothing in the store, so one call per open store shows
\* all that any number of calls can do.
Verify ==
    /\ opened
    /\ ~vres.done
    /\ \E env \in Envelopes : vres' = [done |-> TRUE, at |-> now, env |-> env, out |-> VerifyRun(env)]
    /\ UNCHANGED <<now, fstate, file, opened, certs, indexs, changed, timestamp, last, cache, rlog, avars>>

Next ==
    \/ Tick
    \/ New
    \/ \E cert \in Certs : Add(cert)
    \/ \E cert \in Certs : Remove(cert)
    \/ Save
    \/ Drop

Spec == Init /\ [][Next]_vars

\* The commands that fetch and verify: they open the store and verify.
NextVerify ==
    \/ Tick
    \/ New
    \/ Verify
    \/ Drop

SpecVerify == Init /\ [][NextVerify]_vars

\* Opening a keyring file of up to MaxFile + 1 certificates and closing it.
InitLoad ==
    /\ now = 0
    /\ fstate = "ok"
    /\ file \in FilesUpTo(MaxFile + 1)
    /\ opened = FALSE
    /\ certs = {}
    /\ indexs = EmptyIndex
    /\ changed = FALSE
    /\ timestamp = 0
    /\ last = Called("init", NoCert, FALSE, FALSE, FALSE)
    /\ vres = NoVerify
    /\ cache = NoCache
    /\ rlog = NoLog
    /\ AppIdle

NextLoad ==
    \/ Tick
    \/ New
    \/ Drop

SpecLoad == InitLoad /\ [][NextLoad]_vars

\* A command asks its SigningKeyPairGenerator for the key pair of key_id on
\* the user's certificate (kpg.generate(cert, key_id, None): the timestamp
\* is the current time).
Generate(cert, key_id) ==
    \E pw \in Passwords :
        LET out == GenerateRun(cache, cert, key_id, now, pw)
        IN  /\ out.prompted = 0 => pw = "right"
            /\ rlog.prompts[key_id] + out.prompted <= MaxPrompts
            /\ cache' = out.cache
            /\ rlog' = [prompts  |-> [rlog.prompts EXCEPT ![key_id] = @ + out.prompted],
                        refused  |-> rlog.refused \/ (~out.ok /\ out.prompted > 0),
                        resolved |-> IF out.ok THEN rlog.resolved \cup {key_id} ELSE rlog.resolved,
                        call     |-> [done |-> TRUE, cert |-> cert, key_id |-> key_id,
                                      at |-> now, pw |-> pw, before |-> cache, out |-> out]]
            /\ UNCHANGED <<now, fstate, file, opened, certs, indexs, changed, timestamp, last, vres, avars>>

\* The process of a command with its SigningKeyPairGenerator: no store is
\* involved.
InitResolve ==
    /\ now = 0
    /\ fstate = "missing"
    /\ file = <<>>
    /\ opened = FALSE
    /\ certs = {}
    /\ indexs = EmptyIndex
    /\ changed = FALSE
    /\ timestamp = 0
    /\ last = Called("init", NoCert, FALSE, FALSE, FALSE)
    /\ vres = NoVerify
    /\ cache = NoCache
    /\ rlog = NoLog
    /\ AppIdle

NextResolve ==
    \/ Tick
    \/ \E cert \in OwnCerts : \E key_id \in KeyIds : Generate(cert, key_id)

SpecResolve == InitResolve /\ [][NextResolve]_vars

\* The process dies after save() has written every certificate of the set.
SaveCrashAfterRewrite ==
    /\ opened
    /\ fstate # "denied"
    /\ certs # {}
    /\ fstate' = "ok"
    /\ file' \in IterOrders(certs)
    /\ opened' = FALSE
    /\ certs' = {}
    /\ indexs' = EmptyIndex
    /\ changed' = FALSE
    /\ timestamp' = 0
    /\ last' = Called("crash", NoCert, FALSE, last.hit, TRUE)
    /\ vres' = NoVerify
    /\ UNCHANGED <<now, cache, rlog, avars>>

\* The process dies inside CertificationManager::save, after File::create
\* has truncated the file and before the loop has serialized every
\* certificate: n certificates are in the file, in iteration order; torn:
\* the bytes of a part of the next one follow them.
SaveCrash ==
    /\ opened
    /\ fstate # "denied"
    /\ certs # {}
    /\ \E order \in IterOrders(certs) : \E n \in 0..(Len(order) - 1) : \E torn \in BOOLEAN :
           /\ fstate' = IF torn THEN "corrupt" ELSE "ok"
           /\ file' = SubSeq(order, 1, n)
    /\ opened' = FALSE
    /\ certs' = {}
    /\ indexs' = EmptyIndex
    /\ changed' = FALSE
    /\ timestamp' = 0
    /\ last' = Called("crash", NoCert, FALSE, last.hit, TRUE)
    /\ vres' = NoVerify
    /\ UNCHANGED <<now, cache, rlog, avars>>

\* The commands that change the store, and the crash of one of them while
\* it saves.
NextCrash ==
    \/ New
    \/ \E cert \in Certs : Add(cert)
    \/ \E cert \in Certs : Remove(cert)
    \/ SaveCrash

SpecCrash == Init /\ [][NextCrash]_vars

(***************************************************************************)
(* A record is written, the text is changed on its way, and it is read.    *)
(***************************************************************************)
InitCodec ==
    /\ now = 0
    /\ fstate = "missing"
    /\ file = <<>>
    /\ opened = FALSE
    /\ certs = {}
    /\ indexs = EmptyIndex
    /\ changed = FALSE
    /\ timestamp = 0
    /\ last = Called("init", NoCert, FALSE, FALSE, FALSE)
    /\ vres = NoVerify
    /\ cache = NoCache
    /\ rlog = NoLog
    /\ codec \in {[NoCodec EXCEPT !.stage = "new", !.rec = rec] : rec \in Records}
    /\ signer = NoSigner
    /\ cfile = NoFile
    /\ cfg = NoConfig
    /\ clog = NoConfigLog
    /\ rfile = NoRecordFile
    /\ records = NoRecordConfig
    /\ run = NoRun
    /\ ServersIdle

svars == <<now, fstate, file, opened, certs, indexs, changed, timestamp, last, vres, cache, rlog>>

\* content.write_to(w)
WriteRecord ==
    /\ codec.stage = "new"
    /\ codec' = [codec EXCEPT !.stage = "written", !.buf = WriteTo(codec.rec)]
    /\ UNCHANGED <<svars, signer, cfile, cfg, clog, rfile, records, run, kvars>>

\* The texts one change away from the lines ls, each with the shape it
\* leaves: two lines have changed places, a line was put in front of the
\* text or behind it, a line was lost.
Edits(ls) ==
    {[lines |-> [ls EXCEPT ![p[1]] = ls[p[2]], ![p[2]] = ls[p[1]]], shape |-> "rearranged"] :
        p \in {q \in (1..Len(ls)) \X (1..Len(ls)) : q[1] < q[2]}}
    \cup {[lines |-> <<l>> \o ls, shape |-> "rearranged"] : l \in UnknownLines}
    \cup {[lines |-> ls \o <<l>>, shape |-> "rearranged"] : l \in UnknownLines}
    \cup {[lines |-> <<l>> \o ls, shape |-> "damaged"] : l \in MalformedLines}
    \cup {[lines |-> ls \o <<l>>, shape |-> "damaged"] : l \in MalformedLines}
    \cup {[lines |-> SubSeq(ls, 1, i - 1) \o SubSeq(ls, i + 1, Len(ls)), shape |-> "damaged"] :
             i \in 1..Len(ls)}

\* the bytes are changed on their way to read_from
EditText ==
    /\ codec.stage = "written"
    /\ codec.edits < MaxEdits
    /\ \E e \in Edits(Lines(codec.buf)) :
           codec' = [codec EXCEPT !.buf = Unlines(e.lines), !.edits = @ + 1,
                                  !.shape = IF @ = "damaged" THEN @ ELSE e.shape]
    /\ UNCHANGED <<svars, signer, cfile, cfg, clog, rfile, records, run, kvars>>

\* SubmitContent::read_from(r)
ReadRecord ==
    /\ codec.stage = "written"
    /\ codec' = [codec EXCEPT !.stage = "read", !.out = Decode(codec.buf)]
    /\ UNCHANGED <<svars, signer, cfile, cfg, clog, rfile, records, run, kvars>>

NextCodec ==
    \/ WriteRecord
    \/ EditText
    \/ ReadRecord

SpecCodec == InitCodec /\ [][NextCodec]_vars

(***************************************************************************)
(* A request signs its content: build_signer(w, keypairs) and the write of *)
(* the content through the Message.                                        *)
(***************************************************************************)
MaxKeyPairs == 3    \* build_signer is handed at most MaxKeyPairs keys

InitSign ==
    /\ now = 0
    /\ fstate = "missing"
    /\ file = <<>>
    /\ opened = FALSE
    /\ certs = {}
    /\ indexs = EmptyIndex
    /\ changed = FALSE
    /\ timestamp = 0
    /\ last = Called("init", NoCert, FALSE, FALSE, FALSE)
    /\ vres = NoVerify
    /\ cache = NoCache
    /\ rlog = NoLog
    /\ codec = NoCodec
    /\ signer \in {[NoSigner EXCEPT !.stage = "new", !.body = body, !.big = big, !.keypairs = ks] :
                        body \in Bodies, big \in BOOLEAN, ks \in SeqsUpTo(Keys, MaxKeyPairs)}
    /\ cfile = NoFile
    /\ cfg = NoConfig
    /\ clog = NoConfigLog
    /\ rfile = NoRecordFile
    /\ records = NoRecordConfig
    /\ run = NoRun
    /\ ServersIdle

Sign ==
    /\ signer.stage = "new"
    /\ signer' = [signer EXCEPT !.stage = "signed",
                                !.out = BuildSigner(signer.body, signer.big, signer.keypairs)]
    /\ UNCHANGED <<svars, codec, cfile, cfg, clog, rfile, records, run, kvars>>

SpecSign == InitSign /\ [][Sign]_vars

(***************************************************************************)
(* The runs of the commands config and register over the configuration     *)
(* file.                                                                   *)
(***************************************************************************)
InitConfig ==
    /\ now = 0
    /\ fstate = "missing"
    /\ file = <<>>
    /\ opened = FALSE
    /\ certs = {}
    /\ indexs = EmptyIndex
    /\ changed = FALSE
    /\ timestamp = 0
    /\ last = Called("init", NoCert, FALSE, FALSE, FALSE)
    /\ vres = NoVerify
    /\ cache = NoCache
    /\ rlog = NoLog
    /\ codec = NoCodec
    /\ signer = NoSigner
    /\ cfile \in {NoFile} \cup {JsonFile(d) : d \in ClientDatas}
    /\ cfg = NoConfig
    /\ clog = NoConfigLog
    /\ rfile = NoRecordFile
    /\ records = NoRecordConfig
    /\ run = NoRun
    /\ ServersIdle

\* ClientConfig::new(path, policy) at the start of a command: FileConfig::new,
\* then modify(rectify); when either fails the command ends, and the Drop of
\* a FileConfig that modify has marked writes the file
ClientNew ==
    /\ ~cfg.open
    /\ LET n == FileConfigNew(cfile)
           c == Modify([open |-> TRUE, data |-> n.data, changed |-> FALSE], Update(n.data))
           started == [clog EXCEPT !.base = Serialize(n.data), !.created = ~n.found,
                                   !.touched = FALSE, !.after = clog.pristine,
                                   !.pristine = FALSE, !.reg = NoConfigLog.reg]
       IN  CASE ~n.ok ->
                  /\ cfile' = n.file
                  /\ cfg' = NoConfig
                  /\ clog' = [started EXCEPT !.newres = "err"]
             [] n.ok /\ ~Update(n.data).ok ->
                  /\ cfile' = FileConfigSave(c, n.file)
                  /\ cfg' = NoConfig
                  /\ clog' = [started EXCEPT !.newres = "err", !.base = Serialize(c.data)]
             [] OTHER ->
                  /\ cfile' = n.file
                  /\ cfg' = c
                  /\ clog' = [started EXCEPT !.newres = "ok"]
    /\ UNCHANGED <<svars, codec, signer, rfile, records, run, kvars>>

\* ClientConfig::set_cert_file(v), v the path of a file
SetCertFile(path) ==
    /\ cfg.open
    /\ ~clog.reg.done
    /\ cfg' = Modify(cfg, TryUpdateCertFile(cfg.data, path))
    /\ clog' = [clog EXCEPT !.touched = TRUE]
    /\ UNCHANGED <<svars, codec, signer, cfile, rfile, records, run, kvars>>

\* ClientConfig::set_key_id(v)
SetKeyId(key_id) ==
    /\ cfg.open
    /\ ~clog.reg.done
    /\ cfg' = Modify(cfg, TryUpdateKeyId(cfg.data, key_id))
    /\ clog' = [clog EXCEPT !.touched = TRUE]
    /\ UNCHANGED <<svars, codec, signer, cfile, rfile, records, run, kvars>>

\* An assignment through get_data_mut(): set_api_url, set_server_uuid, and
\* cfg.get_data_mut().key_id = None of main (register)
Assign(field, value) ==
    /\ cfg.open
    /\ ~clog.reg.done
    /\ cfg' = GetDataMut(cfg, [cfg.data EXCEPT ![field] = value])
    /\ clog' = [clog EXCEPT !.touched = TRUE]
    /\ UNCHANGED <<svars, codec, signer, cfile, rfile, records, run, kvars>>

\* command::command_register(&mut cfg, ...), the last call of main (register)
Register(keyok, resp) ==
    /\ cfg.open
    /\ ~clog.reg.done
    /\ LET r == CommandRegister(cfg, keyok, resp)
       IN  /\ cfg' = r.cfg
           /\ clog' = [clog EXCEPT !.touched = TRUE,
                                   !.reg = [done |-> TRUE, ok |-> r.ok, resp |-> resp,
                                            before |-> cfg.data.server_uuid]]
    /\ UNCHANGED <<svars, codec, signer, cfile, rfile, records, run, kvars>>

\* Drop for FileConfig at the end of main: save()
ClientDrop ==
    /\ cfg.open
    /\ cfile' = FileConfigSave(cfg, cfile)
    /\ cfg' = NoConfig
    /\ clog' = [clog EXCEPT !.pristine = clog.created /\ ~clog.touched,
                            !.base = IF cfg.changed THEN Serialize(cfg.data) ELSE @]
    /\ UNCHANGED <<svars, codec, signer, rfile, records, run, kvars>>

NextConfig ==
    \/ ClientNew
    \/ \E path \in CertPaths : SetCertFile(path)
    \/ \E key_id \in KeyIdArgs : SetKeyId(key_id)
    \/ \E uuid \in ServerUuids : Assign("server_uuid", uuid)
    \/ Assign("api_url", 1)
    \/ Assign("key_id", 0)
    \/ \E keyok \in BOOLEAN : \E resp \in ServerUuids \cup {0} : Register(keyok, resp)
    \/ ClientDrop

SpecConfig == InitConfig /\ [][NextConfig]_vars

(***************************************************************************)
(* The runs of the commands submit and recall over the record file.        *)
(***************************************************************************)
InitRecords ==
    /\ now = 0
    /\ fstate = "missing"
    /\ file = <<>>
    /\ opened = FALSE
    /\ certs = {}
    /\ indexs = EmptyIndex
    /\ changed = FALSE
    /\ timestamp = 0
    /\ last = Called("init", NoCert, FALSE, FALSE, FALSE)
    /\ vres = NoVerify
    /\ cache = NoCache
    /\ rlog = NoLog
    /\ codec = NoCodec
    /\ signer = NoSigner
    /\ cfile = NoFile
    /\ cfg = NoConfig
    /\ clog = NoConfigLog
    /\ rfile = NoRecordFile
    /\ records = NoRecordConfig
    /\ run = NoRun
    /\ ServersIdle

\* RecordConfig::new(path) at the start of a command
RecordsNew ==
    /\ ~records.open
    /\ rfile' = [rfile EXCEPT !.found = TRUE]
    /\ \E ix \in IndexesOf(Replay(rfile.lines, 1, NoRecordConfig.cache)) :
           records' = [open |-> TRUE, cache |-> Replay(rfile.lines, 1, NoRecordConfig.cache),
                       index |-> ix, change |-> <<>>]
    /\ run' = [NoRun EXCEPT !.op = "new"]
    /\ UNCHANGED <<svars, codec, signer, cfile, cfg, clog, kvars>>

\* command_submit(cfg, records, ..., player_uuid, ..., force); sent: the
\* configuration is complete and the key resolves; resp: the uuid of the
\* SubmitResponse, 0 when the request fails
Submit(p, force, sent, resp) ==
    /\ records.open
    /\ resp # 0 => Fresh(resp)
    /\ records' = IF (records.index[p] # 0 /\ ~force) \/ ~sent \/ resp = 0
                  THEN records
                  ELSE NewSubmit(records, resp, p)
    /\ LET asked == ~(records.index[p] # 0 /\ ~force) /\ sent
       IN  run' = [op |-> "submit", banlist |-> <<p>>, resps |-> <<resp>>,
                   requests |-> IF asked THEN <<p>> ELSE <<>>,
                   accepted |-> IF asked /\ resp # 0 THEN <<resp>> ELSE <<>>,
                   failed |-> asked /\ resp = 0]
    /\ UNCHANGED <<svars, codec, signer, cfile, cfg, clog, rfile, kvars>>

\* command_import(cfg, records, ..., banlist, ...); sent: the ban list is
\* read, the configuration is complete and the key resolves; resps: the
\* answers of the server to the submit requests, in the order of the requests
Import(banlist, sent, resps) ==
    /\ records.open
    /\ \A n \in 1..Len(resps) :
           resps[n] # 0 => Fresh(resps[n]) /\ \A m \in 1..Len(resps) : resps[m] = resps[n] => m = n
    /\ LET out == IF sent THEN ImportFrom(records, banlist, 1, resps, NoRun)
                          ELSE [records |-> records, log |-> NoRun]
       IN  /\ records' = out.records
           /\ run' = [out.log EXCEPT !.op = "import", !.banlist = banlist,
                                     !.resps = SubSeq(resps, 1, Len(out.log.requests))]
    /\ UNCHANGED <<svars, codec, signer, cfile, cfg, clog, rfile, kvars>>

\* command_recall(cfg, records, ..., record_uuid, ..., force); sent and ok as
\* for command_submit
Recall(r, force, sent, ok) ==
    /\ records.open
    /\ records' = IF (records.cache[r] = 0 /\ ~force) \/ ~sent \/ ~ok
                  THEN records
                  ELSE NewRecall(records, r)
    /\ run' = [NoRun EXCEPT !.op = "recall"]
    /\ UNCHANGED <<svars, codec, signer, cfile, cfg, clog, rfile, kvars>>

\* the end of main as it would be if the RecordConfig were dropped unsaved
RecordsDropUnsaved ==
    /\ records.open
    /\ records' = NoRecordConfig
    /\ run' = [NoRun EXCEPT !.op = "drop"]
    /\ UNCHANGED <<svars, codec, signer, cfile, cfg, clog, rfile, kvars>>

\* Drop for RecordConfig at the end of main: save() appends the changes
RecordsDrop ==
    /\ records.open
    /\ rfile' = [rfile EXCEPT !.lines = @ \o records.change]
    /\ records' = NoRecordConfig
    /\ run' = [NoRun EXCEPT !.op = "drop"]
    /\ UNCHANGED <<svars, codec, signer, cfile, cfg, clog, kvars>>

NextRecords ==
    \/ RecordsNew
    \/ \E p \in Players : \E force, sent \in BOOLEAN : \E resp \in RecordUuids \cup {0} :
           Submit(p, force, sent, resp)
    \/ \E r \in RecordUuids : \E force, sent, ok \in BOOLEAN : Recall(r, force, sent, ok)
    \/ RecordsDrop

SpecRecords == InitRecords /\ [][NextRecords]_vars

\* The runs of the commands when no submit is forced: submit, import and
\* recall over the record file of one server, from the first run on.
NextImport ==
    \/ RecordsNew
    \/ \E p \in Players : \E sent \in BOOLEAN : \E resp \in RecordUuids \cup {0} :
           Submit(p, FALSE, sent, resp)
    \/ \E banlist \in SeqsUpTo(Players, MaxBan) : \E sent \in BOOLEAN :
           \E resps \in [1..Len(banlist) -> RecordUuids \cup {0}] : Import(banlist, sent, resps)
    \/ \E r \in RecordUuids : \E force, sent, ok \in BOOLEAN : Recall(r, force, sent, ok)
    \/ RecordsDrop

SpecImport == InitRecords /\ [][NextImport]_vars

(***************************************************************************)
(* The runs of the commands over the server registry: a process adds and   *)
(* removes servers (main, "cert") or fetches records (main, "record").     *)
(***************************************************************************)
\* the variables outside the server registry, but the clock
nvars == <<fstate, file, opened, certs, indexs, changed, timestamp, last, vres, cache, rlog,
           codec, signer, cfile, cfg, clog, rfile, records, run>>

\* ServersConfig::new(path, cert_file, policy) at the start of a command
ServersNew ==
    /\ ~servers.open
    /\ \E ix \in ServerIndexes(sfiles) :
           LET r == ServersLoad(sfiles, ix, now)
           IN  IF r.ok THEN sfiles' = r.files /\ servers' = r.cfg
                       ELSE UNCHANGED <<sfiles, servers>>
    /\ slog' = [slog EXCEPT !.call = [NoServersLog.call EXCEPT !.op = "new"]]
    /\ shown' = NoShown
    /\ UNCHANGED <<now, nvars>>

\* what the callback that add hands to FileConfig::modify does; cert is
\* what the certificate callback returns, NoCert when it fails
AddCallback(sc, server_uuid, key_id, cert) ==
    IF sc.data[server_uuid] # NoServer THEN [ok |-> TRUE, ret |-> FALSE, data |-> sc.data]
    ELSE IF cert = NoCert THEN [ok |-> FALSE, ret |-> FALSE, data |-> sc.data]
    ELSE IF CheckKey(cert, now, key_id)
         THEN [ok |-> TRUE, ret |-> TRUE,
               data |-> [sc.data EXCEPT ![server_uuid] = [key_id |-> key_id, cert |-> cert]]]
    ELSE [ok |-> TRUE, ret |-> FALSE, data |-> sc.data]

\* add as it would be if it did not ask pgp::check_key
ServersAddUnchecked(server_uuid, key_id, cert) ==
    /\ servers.open
    /\ LET vacant == servers.data[server_uuid] = NoServer /\ cert # NoCert
       IN  /\ servers' = IF vacant
                         THEN [servers EXCEPT !.data[server_uuid] = [key_id |-> key_id, cert |-> cert],
                                              !.changed = TRUE]
                         ELSE servers
           /\ slog' = [added |-> [slog.added EXCEPT ![server_uuid] = @ \/ vacant],
                       call  |-> [op |-> "add", uuid |-> server_uuid,
                                  vacant |-> servers.data[server_uuid] = NoServer,
                                  cb |-> cert # NoCert,
                                  owns |-> CheckKey(cert, now, key_id),
                                  ret |-> IF vacant THEN "true" ELSE "false"]]
    /\ shown' = NoShown
    /\ UNCHANGED <<now, nvars, sfiles>>

\* ServersConfig::add(server_uuid, server_data, cert) as command_cert_add
\* calls it; cert is the certificate read from the console, NoCert when
\* reading it fails
ServersAdd(server_uuid, key_id, cert) ==
    /\ servers.open
    /\ slog.call.op # "get"
    /\ LET r == AddCallback(servers, server_uuid, key_id, cert)
           success == r.ok /\ r.data # servers.data
       IN  /\ servers' = Modify(servers, r)
           /\ slog' = [added |-> [slog.added EXCEPT ![server_uuid] = @ \/ success],
                       call  |-> [op |-> "add", uuid |-> server_uuid,
                                  vacant |-> servers.data[server_uuid] = NoServer,
                                  cb |-> cert # NoCert,
                                  owns |-> CheckKey(cert, now, key_id),
                                  ret |-> IF ~r.ok THEN "err" ELSE IF success THEN "true" ELSE "false"]]
    /\ shown' = NoShown
    /\ UNCHANGED <<now, nvars, sfiles>>

\* ServersConfig::remove(server_uuid)
ServersRemove(server_uuid) ==
    /\ servers.open
    /\ slog.call.op # "get"
    /\ LET success == servers.data[server_uuid] # NoServer
       IN  /\ servers' = Modify(servers, [ok |-> TRUE, ret |-> success,
                                          data |-> [servers.data EXCEPT ![server_uuid] = NoServer]])
           /\ slog' = [added |-> [slog.added EXCEPT ![server_uuid] = FALSE],
                       call  |-> [NoServersLog.call EXCEPT !.op = "remove", !.uuid = server_uuid,
                                     !.vacant = ~success,
                                     !.ret = IF success THEN "true" ELSE "false"]]
    /\ shown' = NoShown
    /\ UNCHANGED <<now, nvars, sfiles>>

\* Drop for ServersConfig at the end of main: save()
ServersDrop ==
    /\ servers.open
    /\ \E order \in ValuesOrders(servers) : sfiles' = ServersSave(servers, sfiles, order)
    /\ servers' = NoServersConfig
    /\ slog' = [slog EXCEPT !.call = [NoServersLog.call EXCEPT !.op = "drop"]]
    /\ shown' = NoShown
    /\ UNCHANGED <<now, nvars>>

\* pgp::verify(cert, key_id, policy, None, content, transfer): the signature
\* on the content is one of the key key_id of cert; signing_key is the key that
\* made it, 0 when the content carries no good signature
VerifyWith(cert, key_id, signing_key, t) ==
    signing_key \in SigningKeys(cert, t) /\ KeyIdOf(signing_key) = key_id

\* command_get_submit(cfg, servers, httpc, record_uuid): the response names
\* the server server_uuid; its content is signed by signing_key and carries the
\* server uuid content_uuid
GetSubmit(server_uuid, signing_key, content_uuid) ==
    /\ servers.open
    /\ slog.call.op \in {"new", "get"}
    /\ shown' = [verified |-> /\ servers.data[server_uuid] # NoServer
                              /\ VerifyWith(servers.data[server_uuid].cert,
                                            servers.data[server_uuid].key_id, signing_key, now),
                 server |-> server_uuid, content_uuid |-> content_uuid]
    /\ slog' = [slog EXCEPT !.call = [NoServersLog.call EXCEPT !.op = "get"]]
    /\ UNCHANGED <<now, nvars, sfiles, servers>>

\* command_get_server_submit(cfg, servers, httpc, server_handle, ..): the
\* handle is a server uuid or (by_key) the key-id of a server, u the server
\* it resolves to; the response holds one submit, signed by signing_key, whose
\* content carries the server uuid content_uuid
GetServerSubmit(by_key, handle, signing_key, content_uuid) ==
    /\ servers.open
    /\ slog.call.op \in {"new", "get"}
    /\ \E u \in ServerUuids :
           /\ servers.data[u] # NoServer
           /\ IF by_key THEN servers.data[u].key_id = handle ELSE u = handle
           /\ shown' = [verified |-> VerifyWith(servers.data[u].cert, servers.data[u].key_id,
                                                signing_key, now),
                        server |-> u, content_uuid |-> content_uuid]
    /\ slog' = [slog EXCEPT !.call = [NoServersLog.call EXCEPT !.op = "get"]]
    /\ UNCHANGED <<now, nvars, sfiles, servers>>

InitServers ==
    /\ now = 0
    /\ fstate = "missing"
    /\ file = <<>>
    /\ opened = FALSE
    /\ certs = {}
    /\ indexs = EmptyIndex
    /\ changed = FALSE
    /\ timestamp = 0
    /\ last = Called("init", NoCert, FALSE, FALSE, FALSE)
    /\ vres = NoVerify
    /\ cache = NoCache
    /\ rlog = NoLog
    /\ AppIdle

NextServers ==
    \/ Tick
    \/ ServersNew
    \/ \E server_uuid \in ServerUuids : \E key_id \in KeyIds : \E cert \in Certs \cup {NoCert} :
           ServersAdd(server_uuid, key_id, cert)
    \/ \E server_uuid \in ServerUuids : ServersRemove(server_uuid)
    \/ \E server_uuid, content_uuid \in ServerUuids : \E signing_key \in Keys \cup {0} :
           GetSubmit(server_uuid, signing_key, content_uuid)
    \/ \E by_key \in BOOLEAN : \E handle \in ServerUuids \cup KeyIds :
       \E content_uuid \in ServerUuids : \E signing_key \in Keys \cup {0} :
           GetServerSubmit(by_key, handle, signing_key, content_uuid)
    \/ ServersDrop

SpecServers == InitServers /\ [][NextServers]_vars

(***************************************************************************)
(* Claims about the trust store.                                           *)
(***************************************************************************)

\* some fingerprint occurs more than once in the keyring file f
\* ---------------------------------------------------------------------
\* Properties of verify (checked under SpecVerify)
\* ---------------------------------------------------------------------

\* A verification has been made and the clock has not moved since.
Checked == vres.done /\ vres.at = now

AllSigs(env) == Issuers(env.layers)

OneSignatureLayer(env) ==
    Len(env.layers) = 1 /\ env.layers[1].kind = "SignatureGroup"

\* The handle names a live signing key of a certificate of the store.
Resolves(h) ==
    IF h.handle = "KeyID"
    THEN /\ KeyIdOf(h.key) \in DOMAIN indexs
         /\ indexs[KeyIdOf(h.key)] # Dangling
    ELSE \E c \in certs : h.key \in SigningKeys(c, timestamp)

AllResolve(env) == \A i \in 1..Len(AllSigs(env)) : Resolves(AllSigs(env)[i])

\* The certificates the claimed signers of env resolve to.
ResolvedCert(h) ==
    IF h.handle = "KeyID" THEN Get(KeyIdOf(h.key)) ELSE ScanFingerprint(h.key)

ResolvedCerts(env) ==
    {ResolvedCert(AllSigs(env)[i]) : i \in 1..Len(AllSigs(env))} \ {NoCert}

\* The signature verifies against a certificate resolved for the envelope.
VerifiesResolved(env, sig) ==
    sig.valid /\ \E c \in ResolvedCerts(env) : sig.key \in SigningKeys(c, now)

\* The signature verifies under a signing key of some stored certificate.
VerifiesInStore(sig) ==
    sig.valid /\ \E c \in certs : sig.key \in SigningKeys(c, now)

\* Authentication accepted: f was run on the body and its result returned.
Accepted(out) == out.fInvoked /\ (out.ok \/ out.err \in DecodeErrors)

\* C1: an envelope with a single signature layer, all of whose claimed
\* signers resolve, is accepted whenever at least one signature of the
\* layer verifies against its resolved certificate, at whatever position.
C1_AtLeastOneAccepts ==
    (/\ Checked
     /\ OneSignatureLayer(vres.env)
     /\ AllResolve(vres.env)
     /\ \E j \in 1..Len(vres.env.layers[1].sigs) :
            VerifiesResolved(vres.env, vres.env.layers[1].sigs[j]))
    => Accepted(vres.out)

\* The envelopes of the same shape and signers as env, with another body
\* and any verdicts on the signatures: what env may have been before its
\* body was altered.
SigOffset(ls, i) == CountSigs(SubSeq(ls, 1, i - 1))

WithValidity(env, b, f) ==
    [body |-> b, big |-> env.big,
     layers |-> [i \in 1..Len(env.layers) |->
                    [kind |-> env.layers[i].kind,
                     sigs |-> [j \in 1..Len(env.layers[i].sigs) |->
                                  [handle |-> env.layers[i].sigs[j].handle,
                                   key    |-> env.layers[i].sigs[j].key,
                                   valid  |-> f[SigOffset(env.layers, i) + j]]]]]]

Originals(env) ==
    {WithValidity(env, b, f) : b \in Bodies \ {env.body},
                               f \in [1..CountSigs(env.layers) -> BOOLEAN]}

\* env is an accepted envelope whose body was altered afterwards: none of
\* its signatures matches the body any more.
Tampered(env) ==
    /\ AllSigs(env) # <<>>
    /\ \A i \in 1..Len(AllSigs(env)) : ~AllSigs(env)[i].valid
    /\ \E e0 \in Originals(env) : VerifyRun(e0).ok

\* C2: an envelope in which no signature over the body verifies is never
\* accepted, and an accepted envelope whose body was altered fails with
\* SignatureVerificationFailed; in both cases no decoded value is returned.
C2_NoFalseAccept ==
    Checked =>
        /\ (\A i \in 1..Len(AllSigs(vres.env)) : ~VerifiesInStore(AllSigs(vres.env)[i]))
               => (~vres.out.ok /\ vres.out.value = NoRecord)
        /\ Tampered(vres.env)
               => /\ ~vres.out.ok
                  /\ ErrorKind(vres.out.err) = "SignatureVerificationFailed"
                  /\ vres.out.value = NoRecord

\* C2 witness: an altered envelope was verified and refused.
C2_Witness ==
    /\ Checked
    /\ Tampered(vres.env)
    /\ vres.out.err = "VerificationError"

\* More than one layer, or a layer that is not a signature group.
OddStructure(env) ==
    \/ Len(env.layers) >= 2
    \/ \E i \in 1..Len(env.layers) : env.layers[i].kind # "SignatureGroup"

C4_UnresolvedSignerFails ==
    (Checked /\ ~AllResolve(vres.env))
    => /\ ~vres.out.ok
       /\ ErrorKind(vres.out.err) = "CertNotFound"
       /\ ~vres.out.fInvoked
       /\ vres.out.value = NoRecord

\* C4 witness: of two claimed signers one resolved and verifies, the other
\* did not resolve, and the call failed with CertNotFound.
C4_Witness ==
    /\ Checked
    /\ \E i, j \in 1..Len(AllSigs(vres.env)) :
          /\ VerifiesResolved(vres.env, AllSigs(vres.env)[i])
          /\ ~Resolves(AllSigs(vres.env)[j])
    /\ vres.out.err = "cert not find"

\* C5: f is invoked only after check has accepted the envelope; when
\* authentication fails f is given no bytes of the body and no result of f
\* is returned.
C5_DecodeOnlyAfterAccept ==
    vres.done =>
        /\ vres.out.fInvoked => ~vres.out.fEarly
        /\ vres.out.err \in AuthErrors
               => (~vres.out.fInvoked /\ vres.out.value = NoRecord)

\* C6: an envelope signed over content C with a signing key K that is valid
\* now and belongs to a certificate of the store (here a store loaded from
\* its keyring file) is accepted, and f's result on exactly C is returned.
C6_SignVerifyRoundTrip ==
    \A k \in Keys :
        (/\ Checked
         /\ vres.env = SignEnvelope(vres.env.body, vres.env.big, <<k>>)
         /\ \E c \in certs : k \in SigningKeys(c, now))
        => /\ vres.out.fInvoked
           /\ vres.out.ok = ReadFrom(vres.env.body).ok
           /\ vres.out.err = ReadFrom(vres.env.body).err
           /\ vres.out.value = ReadFrom(vres.env.body).value

\* C7: when f fails on an authentic body the failure is reported as
\* ContentDecodeFailed, and no authentication failure is reported so.
C7_DecodeFailureDistinct ==
    Checked =>
        /\ (/\ OneSignatureLayer(vres.env)
            /\ AllResolve(vres.env)
            /\ VerifiesResolved(vres.env, vres.env.layers[1].sigs[1])
            /\ ~ReadFrom(vres.env.body).ok)
               => /\ ~vres.out.ok
                  /\ ErrorKind(vres.out.err) = "ContentDecodeFailed"
                  /\ vres.out.err \notin AuthErrors
        /\ (~vres.out.ok /\ ~vres.out.fInvoked)
               => ErrorKind(vres.out.err) \in
                     {"CertNotFound", "NoSignature", "StructureRejected",
                      "SignatureVerificationFailed"}

\* C7 witness: an authentic body without its uuid line was refused with a
\* missing-field failure.
C7_Witness ==
    /\ Checked
    /\ OneSignatureLayer(vres.env)
    /\ VerifiesResolved(vres.env, vres.env.layers[1].sigs[1])
    /\ vres.env.body = NoUuidBody
    /\ vres.out.err = "missing field"

\* ---------------------------------------------------------------------
\* Properties of the store (checked under Spec and SpecLoad)
\* ---------------------------------------------------------------------

HasDuplicateFp(f) == \E i, j \in 1..Len(f) : i # j /\ f[i].fp = f[j].fp

\* C8: every entry of the key-id index refers to a certificate that is
\* currently in the store (a removed certificate leaves no entry behind).
C8_IndexRefersToStore ==
    opened => \A k \in DOMAIN indexs :
                  indexs[k] # Dangling /\ \E d \in certs : d.fp = indexs[k]

\* C9: the store holds at most one entry per certificate fingerprint, also
\* after loading a keyring file that holds a fingerprint several times.
C9_OneEntryPerFingerprint ==
    \A a, b \in certs : a.fp = b.fp => a = b

\* C9 witness: a store loaded from a file with a repeated fingerprint, to
\* which a further certificate was then added.
C9_Witness ==
    /\ opened
    /\ HasDuplicateFp(file)
    /\ last.op = "add" /\ last.ret
    /\ Cardinality(certs) = NCerts

\* C10: a store just loaded from a keyring file in which some fingerprint
\* occurs more than once has its dirty flag set.
C10_DuplicateSetsDirty ==
    (opened /\ last.op = "new" /\ HasDuplicateFp(file)) => changed


\* A step of add (or no step at all): add is the last operation and the
\* clock has not moved.
AddStep == last'.op = "add" /\ now' = now

\* C11 as stated: save() on a store whose dirty flag is unset leaves the
\* keyring file as it is, neither created, truncated nor rewritten.
C11_CleanSaveLeavesFile ==
    [][(opened /\ ~changed /\ last'.op = "save" /\ now' = now)
          => (file' = file /\ fstate' = fstate)]_vars

\* The keyring file holds exactly the certificates of the set cs, each once.
FileHolds(fs, f, cs) ==
    /\ fs = "ok"
    /\ {f[i] : i \in 1..Len(f)} = cs
    /\ Len(f) = Cardinality(cs)

\* C12: when an add or a remove has returned true since the store was opened
\* and save() was never called, the keyring file after teardown holds
\* exactly the certificates the set held at teardown.
C12_TeardownFlushes ==
    [][(opened /\ ~opened' /\ last.hit /\ ~last.saved)
          => FileHolds(fstate', file', certs)]_vars

\* C12 witness: a store was torn down after an add or a remove that
\* returned true, with no save, and left certificates in the file.
C12_Witness ==
    /\ ~opened
    /\ last.op = "drop" /\ last.ret
    /\ last.hit /\ ~last.saved
    /\ fstate = "ok"
    /\ file # <<>>

\* C14: add of a certificate whose fingerprint is not in the store returns
\* true, inserts it, and get(k) returns that certificate for every key-id k
\* of a key of it that is signing-capable, not revoked and alive at add time.
C14_AddIndexesSigningKeys ==
    [][(AddStep /\ ~HashSetContains(certs, last'.arg))
          => /\ last'.ret
             /\ last'.arg \in certs'
             /\ \A k \in SigningKeyIds(last'.arg, now) :
                   /\ k \in DOMAIN indexs'
                   /\ Upgrade(certs', indexs'[k]) = last'.arg]_vars

\* C14 witness: a certificate with an indexed key was added to a store that
\* already indexed that key-id for another certificate.
C14_Witness ==
    /\ opened
    /\ last.op = "add" /\ last.ret
    /\ Cardinality(certs) = 2
    /\ \E k \in SigningKeys(last.arg, now) :
          \E c \in certs : c # last.arg /\ KeyIdOf(k) \in SigningKeyIds(c, now)

\* C15: add of a certificate whose fingerprint is in the store returns false
\* and leaves the set, the index and the dirty flag as they were; the store
\* holds one entry of that fingerprint.
C15_AddExistingIsNoOp ==
    [][(AddStep /\ HashSetContains(certs, last'.arg))
          => /\ ~last'.ret
             /\ certs' = certs
             /\ indexs' = indexs
             /\ changed' = changed
             /\ Cardinality({d \in certs' : d.fp = last'.arg.fp}) = 1]_vars

\* C15 witness: add returned false for a copy of a stored certificate that
\* carries other keys than the stored copy.
C15_Witness ==
    /\ opened
    /\ last.op = "add" /\ ~last.ret
    /\ last.arg \notin certs
    /\ ~changed

\* C16: new() on a missing keyring file gives an empty store that is not
\* dirty; on another open error or on bytes that do not parse it fails, no
\* store exists and the file is left as it is.
C16_LoadFailsWhole ==
    /\ fstate \in {"denied", "corrupt"} => (~opened /\ certs = {} /\ indexs = EmptyIndex)
    /\ (last.op = "new" /\ fstate \in {"denied", "corrupt"}) => ~last.ret
    /\ (last.op = "new" /\ fstate = "missing")
          => (last.ret /\ opened /\ certs = {} /\ indexs = EmptyIndex /\ ~changed)

\* C16 witness: new() has failed on a file with certificates in front of
\* the bytes that do not parse.
C16_Witness ==
    /\ last.op = "new" /\ ~last.ret
    /\ fstate = "corrupt"
    /\ file # <<>>

\* get(k) on a store st that new() has built
GetIn(st, k) == IF k \in DOMAIN st.indexs THEN Upgrade(st.certs, st.indexs[k]) ELSE NoCert

\* No key of a stored certificate changes its state over the time of the model.
StableKeys(cs) == \A c \in cs : \A t \in Times : SigningKeys(c, t) = SigningKeys(c, now)

\* C13: when the store has been saved and the keys do not change their
\* state, a new process that loads the written file gets a store with the
\* same fingerprints in which get(k) returns, for every key-id k, a
\* certificate of the fingerprint it returns in the saved store (or none
\* where it returns none).
C13_SaveLoadSameStore ==
    (opened /\ last.op = "save" /\ StableKeys(certs))
    => LET st == LoadStore(fstate, file, now)
       IN  /\ st.ok
           /\ {c.fp : c \in st.certs} = {c.fp : c \in certs}
           /\ \A k \in KeyIds : GetIn(st, k).fp = Get(k).fp

(***************************************************************************)
(* Claims about the signing key of a command (checked under SpecResolve).  *)
(***************************************************************************)

\* The key of cert that a call for key_id at t is about: the first signing
\* key of that key-id that carries a usable secret; NoKey if there is none.
TargetKey(cert, key_id, t) ==
    LET ks == MatchingKeys(cert, key_id, t)
        usable == {i \in 1..Len(ks) : cert.secret[ks[i]] \in {"plain", "encrypted"}}
    IN  IF usable = {} THEN NoKey
        ELSE ks[CHOOSE i \in usable : \A j \in usable : i <= j]

\* The last call of generate was for a key whose secret is encrypted.
CalledEncrypted ==
    /\ rlog.call.done
    /\ TargetKey(rlog.call.cert, rlog.call.key_id, rlog.call.at) # NoKey
    /\ rlog.call.cert.secret[TargetKey(rlog.call.cert, rlog.call.key_id, rlog.call.at)]
          = "encrypted"

\* C17 as stated: while no call has failed after asking the
\* PasswordProvider, it has been asked at most once for each key-id that
\* was resolved.
C17_PromptOncePerKeyId ==
    ~rlog.refused => \A k \in rlog.resolved : rlog.prompts[k] <= 1

\* C18: a call for the key-id the cache holds returns the cached key without
\* asking the PasswordProvider and leaves the cache as it is; a call for
\* another key-id that succeeds leaves exactly that key-id and its key in
\* the cache.
C18_CacheServesAndReplaces ==
    rlog.call.done =>
        /\ (rlog.call.before # NoCache /\ rlog.call.before.key_id = rlog.call.key_id)
              => /\ rlog.call.out.ok
                 /\ rlog.call.out.key = rlog.call.before.keypair
                 /\ rlog.call.out.prompted = 0
                 /\ cache = rlog.call.before
        /\ (rlog.call.before.key_id # rlog.call.key_id /\ rlog.call.out.ok)
              => /\ cache = [key_id |-> rlog.call.key_id, keypair |-> rlog.call.out.key]
                 /\ rlog.call.out.key = TargetKey(rlog.call.cert, rlog.call.key_id, rlog.call.at)

\* C18 witness: a call for another key-id than the cached one has
\* succeeded and replaced the entry.
C18_Witness ==
    /\ rlog.call.done
    /\ rlog.call.before # NoCache
    /\ rlog.call.before.key_id # rlog.call.key_id
    /\ rlog.call.out.ok
    /\ cache.key_id = rlog.call.key_id

\* What C19 says of a call that asked for an encrypted key: one prompt; if
\* the passphrase does not decrypt, PasswordIncorrect, the cache as before
\* and without that key-id, and a prompt again at the next call.
OnePromptNoCache ==
    /\ rlog.call.out.prompted = 1
    /\ rlog.call.pw = "wrong"
          => /\ ~rlog.call.out.ok
             /\ ResolveErrorKind(rlog.call.out.err) = "PasswordIncorrect"
             /\ cache = rlog.call.before
             /\ cache.key_id # rlog.call.key_id
             /\ GenerateRun(cache, rlog.call.cert, rlog.call.key_id, rlog.call.at, "right").prompted = 1

\* C19 as stated: every call of generate for a key whose secret is
\* encrypted asks the PasswordProvider exactly once, and a passphrase that
\* does not decrypt gives PasswordIncorrect and caches nothing.
C19_OnePromptPerCall ==
    CalledEncrypted => OnePromptNoCache

\* C19 amended: every call of generate that is not served from the cache,
\* for a key whose secret is encrypted, asks the PasswordProvider exactly
\* once, and a passphrase that does not decrypt gives PasswordIncorrect and
\* caches nothing.
C19_OnePromptPerUncachedCall ==
    (CalledEncrypted /\ ~rlog.call.out.hit) => OnePromptNoCache

\* C19 witness: a call for an encrypted key got a passphrase that does not
\* decrypt, while the cache held another key-id.
C19_Witness ==
    /\ CalledEncrypted
    /\ ~rlog.call.out.hit
    /\ rlog.call.pw = "wrong"
    /\ rlog.call.before # NoCache
    /\ rlog.prompts[rlog.call.key_id] = 1

\* C20 as stated: a call fails with NoSuitableSigningKey, without asking the
\* PasswordProvider, when the certificate has no signing key of that key-id
\* that is alive and not revoked at the time of the call, or when the keys
\* that match carry no secret.
C20_NoSuitableKeyFails ==
    (/\ rlog.call.done
     /\ \A k \in SigningKeys(rlog.call.cert, rlog.call.at) :
           KeyIdOf(k) = rlog.call.key_id => rlog.call.cert.secret[k] = "none")
    => /\ ~rlog.call.out.ok
       /\ ResolveErrorKind(rlog.call.out.err) = "NoSuitableSigningKey"
       /\ rlog.call.out.prompted = 0

(***************************************************************************)
(* Claims about the record format (checked under SpecCodec).               *)
(***************************************************************************)
\* the text of line l in front of its first colon and behind it, trimmed
NameOf(l) == Trim(SubSeq(l, 1, FirstColon(l, 1) - 1))
ValueOf(l) == Trim(SubSeq(l, FirstColon(l, 1) + 1, Len(l)))

\* line l gives a value to the field called name
Names(l, name) == FirstColon(l, 1) # 0 /\ NameOf(l) = <<name>>

Appears(ls, name) == \E i \in 1..Len(ls) : Names(ls[i], name)

RequiredFields == {"uuid", "timestamp", "player_uuid", "points"}

\* every required field appears among the lines ls
AllAppear(ls) == \A f \in RequiredFields : Appears(ls, f)

\* a line of ls gives a known field a value that is not of its type
Unparsable(ls) ==
    \E i \in 1..Len(ls) :
        \/ Names(ls[i], "uuid") /\ ~IsUuid(ValueOf(ls[i]))
        \/ Names(ls[i], "player_uuid") /\ ~IsUuid(ValueOf(ls[i]))
        \/ Names(ls[i], "timestamp") /\ ~IsU64(ValueOf(ls[i]))
        \/ Names(ls[i], "points") /\ ~IsF32(ValueOf(ls[i]))

Refused(e) == ~codec.out.ok /\ codec.out.err = e /\ codec.out.value = NoContent

WasRead == codec.stage = "read"

\* C21: a record that is written and read back as written comes back equal
\* field for field, whatever colons and spaces its comment holds.
C21_RoundTrip ==
    WasRead /\ codec.shape = "encoded" => codec.out.ok /\ codec.out.value = codec.rec

\* C22 as stated: a text in which a required field never appears is refused
\* with MissingField, and a text in which a known field has a value that
\* does not parse is refused with MalformedField.
C22_MissingOrMalformed ==
    WasRead =>
        LET ls == Lines(codec.buf)
        IN  /\ ~AllAppear(ls) => Refused("missing field")
            /\ Unparsable(ls) => Refused("malformed field")

\* C22 amended: a value that does not parse is always refused with
\* MalformedField; a required field that never appears is refused with
\* MissingField when every known field of the text parses.
C22_MalformedBeforeMissing ==
    WasRead =>
        LET ls == Lines(codec.buf)
            bad == Unparsable(ls)
        IN  /\ bad => Refused("malformed field")
            /\ ~bad /\ ~AllAppear(ls) => Refused("missing field")
            /\ ~bad /\ AllAppear(ls) => codec.out.ok

C22_Witness ==
    /\ WasRead
    /\ Unparsable(Lines(codec.buf))
    /\ ~AllAppear(Lines(codec.buf))
    /\ Refused("malformed field")

Signed == signer.stage = "signed"

\* C24: sign with an empty key list fails with NoSigningKeys and nothing is
\* written to the output.
C24_NoKeysNoBytes ==
    Signed /\ signer.keypairs = <<>> =>
        /\ ~signer.out.ok
        /\ signer.out.err = "No signing keys found"
        /\ signer.out.w = <<>>

C24_Witness == Signed /\ signer.keypairs = <<>> /\ ~signer.out.ok

\* how often key k occurs among the keys ks, and among the signers of sigs
TimesKey(ks, k) == Cardinality({j \in 1..Len(ks) : ks[j] = k})
TimesSigner(sigs, k) == Cardinality({j \in 1..Len(sigs) : sigs[j].key = k})

\* C25: sign with n >= 1 keys writes one envelope over the body handed in,
\* with exactly one signature layer of exactly n signatures, one made by each
\* of the keys and each valid over that body.
C25_OneLayerOneSignaturePerKey ==
    Signed /\ Len(signer.keypairs) >= 1 =>
        /\ signer.out.ok
        /\ Len(signer.out.w) = 1
        /\ signer.out.w[1].body = signer.body
        /\ Len(signer.out.w[1].layers) = 1
        /\ signer.out.w[1].layers[1].kind = "SignatureGroup"
        /\ Len(signer.out.w[1].layers[1].sigs) = Len(signer.keypairs)
        /\ \A k \in Keys :
               TimesSigner(signer.out.w[1].layers[1].sigs, k) = TimesKey(signer.keypairs, k)
        /\ \A j \in 1..Len(signer.keypairs) : signer.out.w[1].layers[1].sigs[j].valid

C25_Witness ==
    /\ Signed
    /\ signer.out.ok
    /\ Len(signer.keypairs) = MaxKeyPairs
    /\ \E i, j \in 1..Len(signer.keypairs) : signer.keypairs[i] # signer.keypairs[j]

(***************************************************************************)
(* Claims about a crash during save (checked under SpecCrash).             *)
(***************************************************************************)
\* the step of a crash inside save()
CrashStep == opened /\ last'.op = "crash"

\* the certificates the file held before the step
Previous == {file[i] : i \in 1..Len(file)}

\* C27 as stated: after a crash inside save() between the truncation and the
\* end of the rewrite, the keyring file holds neither the previous complete
\* certificate set nor the new one.
C27_CrashLosesBoth ==
    [][CrashStep =>
          /\ ~FileHolds(fstate', file', certs)
          /\ fstate = "ok" => ~FileHolds(fstate', file', Previous)]_vars

\* C27 amended: after such a crash the file never holds the new set; what
\* it holds is a part of the new set written so far, and that is the
\* previous complete set only when the previous set is a proper part of the
\* new one.
C27_CrashLeavesPart ==
    [][CrashStep =>
          /\ ~FileHolds(fstate', file', certs)
          /\ Len(file') < Cardinality(certs)
          /\ \A i \in 1..Len(file') : file'[i] \in certs
          /\ (fstate = "ok" /\ FileHolds(fstate', file', Previous)) =>
                 (Previous \subseteq certs /\ Previous # certs)]_vars

\* a crash after an add that returned true, with a part of the set written
C27_Witness == last.op = "crash" /\ last.hit /\ ~opened /\ file # <<>>

(***************************************************************************)
(* Claims about the client configuration (checked under SpecConfig).       *)
(***************************************************************************)
RegisterDone == clog.reg.done
Persisted(uuid) == cfile.state = "json" /\ <<"server_uuid", uuid>> \in cfile.json

\* C26: after command_register has succeeded the configured server_uuid is
\* the uuid the server returned, and after teardown the configuration file
\* holds it; after command_register has failed the configured server_uuid is
\* the one from before the call.
C26_ServerUuidAfterRegister ==
    /\ (cfg.open /\ RegisterDone /\ clog.reg.ok) => cfg.data.server_uuid = clog.reg.resp
    /\ (cfg.open /\ RegisterDone /\ ~clog.reg.ok) => cfg.data.server_uuid = clog.reg.before
    /\ (~cfg.open /\ RegisterDone /\ clog.reg.ok) => Persisted(clog.reg.resp)

C26_Witness ==
    /\ ~cfg.open
    /\ RegisterDone
    /\ clog.reg.ok
    /\ clog.reg.before # clog.reg.resp
    /\ Persisted(clog.reg.resp)

\* C28: while the dirty flag of the FileConfig is unset, the data in memory
\* is the data last loaded from or saved to the file.
C28_CleanFlagMeansSaved ==
    cfg.open /\ ~cfg.changed => Serialize(cfg.data) = clog.base

\* C29: when the run before found no file and modified nothing, new succeeds
\* in this run and yields the default data.
C29_PristineRunLeavesLoadable ==
    clog.after /\ clog.newres # "none" => clog.newres = "ok" /\ cfg.data = DefaultData

(***************************************************************************)
(* Claims about the local records (checked under SpecRecords).             *)
(***************************************************************************)
\* C30: check_player_uuid(p) (the index at p) returns a record exactly when
\* the cache holds a record of player p that was not recalled, and
\* check_record_uuid (the cache) of the record it returns is p.
C30_IndexAgreesWithCache ==
    records.open =>
        \A p \in Players :
            /\ records.index[p] # 0 <=> \E r \in RecordUuids : records.cache[r] = p
            /\ records.index[p] # 0 => records.cache[records.index[p]] = p

(***************************************************************************)
(* Claims about the key pair that generate returns (SpecResolve) and about *)
(* get(k) of the store (Spec).                                             *)
(***************************************************************************)

\* C36 as stated: the key pair a call generate(cert, key_id, timestamp)
\* returns is a key of the certificate passed in that call, of the key-id
\* asked for, and a signing key of it that is alive and not revoked at the
\* timestamp passed, also when the cache served it.
C36_KeyOfPassedCert ==
    (rlog.call.done /\ rlog.call.out.ok)
    => /\ rlog.call.out.key \in rlog.call.cert.keys
       /\ KeyIdOf(rlog.call.out.key) = rlog.call.key_id
       /\ rlog.call.out.key \in SigningKeys(rlog.call.cert, rlog.call.at)

\* C37 as stated: while the keys do not change their state, for every
\* certificate C in the store and every key-id k that was indexed for C
\* (the key-ids of its signing keys), get(k) returns a certificate that is
\* in the store and owns a key of key-id k, whatever was added or removed
\* besides C.
C37_GetReturnsOwner ==
    (opened /\ StableKeys(certs))
    => \A c \in certs : \A k \in SigningKeyIds(c, now) :
           /\ Get(k) \in certs
           /\ k \in {KeyIdOf(x) : x \in Get(k).keys}

(***************************************************************************)
(* Claims about the record file and the commands that write it             *)
(* (SpecRecords, SpecImport).                                              *)
(***************************************************************************)

\* C31 as stated: when save() has appended the changes of a RecordConfig,
\* RecordConfig::new over the written file builds the cache and the player
\* index that the instance had in memory, whatever order the iteration over
\* the cache takes; a save with no change appends nothing.
C31_ReloadSameState ==
    [][(records.open /\ ~records'.open)
       => LET c == Replay(rfile'.lines, 1, NoRecordConfig.cache)
          IN  /\ c = records.cache
              /\ IndexesOf(c) = {records.index}
              /\ records.change = <<>> => rfile'.lines = rfile.lines]_vars

\* the records that are not recalled: those of the RecordConfig while a
\* command runs, those of the record file between two commands
ActiveRecords(rc, f) == IF rc.open THEN rc.cache ELSE Replay(f.lines, 1, NoRecordConfig.cache)

\* C32: while no submit is forced, no player has two records that are not
\* recalled; command_submit sends no request for a player who has such a
\* record; command_import sends at most one request per player, also when
\* the ban list names the player several times, and none for a player who
\* had such a record when it started.
C32_OneRecordPerPlayer ==
    [][/\ \A p \in Players :
              Cardinality({r \in RecordUuids : ActiveRecords(records', rfile')[r] = p}) <= 1
       /\ (run'.op = "submit" /\ \E r \in RecordUuids : records.cache[r] = run'.banlist[1])
              => run'.requests = <<>> /\ records' = records
       /\ run'.op = "import"
              => /\ \A m, n \in 1..Len(run'.requests) :
                        run'.requests[m] = run'.requests[n] => m = n
                 /\ \A n \in 1..Len(run'.requests) :
                        \A r \in RecordUuids : records.cache[r] # run'.requests[n]]_vars

\* C32 witness: an import whose ban list names player 1 twice has had one
\* record accepted, which is the record of that player.
C32_Witness ==
    /\ run.op = "import"
    /\ run.banlist = <<1, 1>>
    /\ Len(run.accepted) = 1
    /\ records.cache[run.accepted[1]] = 1

\* the Record::Submit lines of the first k requests of the command log
SubmitLines(log, k) ==
    [n \in 1..k |-> [sign |-> "+", record_uuid |-> log.resps[n], player_uuid |-> log.requests[n]]]

\* C33: when a request of command_import has failed, the records the server
\* accepted before it, and no others, have been entered with new_submit:
\* the changes of the RecordConfig have grown by their Submit lines, the
\* cache by their entries; at the end of the command the changes are
\* appended to the record file.
C33_AcceptedAreRecorded ==
    [][/\ (run'.op = "import" /\ run'.failed)
              => LET k == Len(run'.requests) - 1
                 IN  /\ run'.resps[k + 1] = 0
                     /\ \A n \in 1..k : run'.resps[n] # 0
                     /\ records'.change = records.change \o SubmitLines(run', k)
                     /\ \A r \in RecordUuids :
                            records'.cache[r] =
                                IF \E n \in 1..k : run'.resps[n] = r
                                THEN run'.requests[CHOOSE n \in 1..k : run'.resps[n] = r]
                                ELSE records.cache[r]
       /\ (records.open /\ ~records'.open) => rfile'.lines = rfile.lines \o records.change]_vars

\* C33 witness: an import has failed at its second request; the record
\* accepted at the first one is in the changes.
C33_Witness ==
    /\ run.op = "import"
    /\ run.failed
    /\ Len(run.requests) = 2
    /\ records.change # <<>>
    /\ records.change[Len(records.change)].record_uuid = run.resps[1]

(***************************************************************************)
(* Claims about the server registry and the records fetched                *)
(* (SpecServers).                                                          *)
(***************************************************************************)

\* C34 as stated: when save() has written the servers file and the keyring
\* at the end of a command, every ServersConfig::new over the two files
\* holds each server for which add has returned true and which was not
\* removed since, with a certificate that owns the key-id of the server.
C34_AddedSurviveReload ==
    [][(servers.open /\ ~servers'.open /\ servers.changed)
       => \A ix \in ServerIndexes(sfiles') :
              LET r == ServersLoad(sfiles', ix, now)
              IN  \A u \in ServerUuids :
                      slog.added[u]
                      => /\ r.ok
                         /\ r.cfg.data[u] # NoServer
                         /\ CheckKey(r.cfg.data[u].cert, now, r.cfg.data[u].key_id)]_vars

\* C35: every entry of the servers map of a ServersConfig carries a
\* certificate (so get, get_ref, get_cert and save find one), and a call of
\* add leaves the map as it was when the uuid had an entry, when the
\* certificate callback failed or when the certificate did not own the
\* key-id stated.
C35_EntriesHaveCerts ==
    [][/\ \A u \in ServerUuids :
              servers'.data[u] # NoServer
              => servers'.data[u].cert # NoCert /\ servers'.data[u].key_id # 0
       /\ (slog'.call.op = "add"
           /\ (~slog'.call.vacant \/ ~slog'.call.cb \/ ~slog'.call.owns))
              => servers'.data = servers.data /\ slog'.call.ret # "true"]_vars

\* C35 witness: with a server in the map, add was called for another uuid
\* with a certificate that does not own the key-id stated, and returned
\* false.
C35_Witness ==
    /\ slog.call.op = "add"
    /\ slog.call.vacant /\ slog.call.cb /\ ~slog.call.owns
    /\ slog.call.ret = "false"
    /\ servers.data[slog.call.uuid] = NoServer
    /\ \E u \in ServerUuids : servers.data[u] # NoServer

\* C38 as stated: a record printed under "+ Verified Message" carries, in
\* its signed content, the uuid of the server whose certificate verified
\* the signature.
C38_ContentNamesVerifier ==
    shown.verified => shown.content_uuid = shown.server

====
